---- MODULE Spec2Model ----
(***************************************************************************)
(* kube-exec-controller: the admission webhook (pkg/webhook/webhook.go),   *)
(* the controller that turns admitted events into eviction timers          *)
(* (pkg/controller, kept in src/demo/deploy.sh from line 221 on) and the    *)
(* metadata helpers (pkg/controller/kube_helper.go).                        *)
(*                                                                         *)
(* Strings are TLA+ strings; parsing and formatting are computed character *)
(* by character.  Durations and instants are counted in whole seconds.     *)
(***************************************************************************)
EXTENDS Integers, Sequences, FiniteSets, TLC

VARIABLES
    handlers,              \* one record per HTTP handler goroutine of the webhook
    calls,                 \* admission requests the API server has sent so far
    PodInteractionCh,      \* buffered channel of PodInteraction
    PodExtensionUpdateCh,  \* buffered channel of PodExtensionUpdate
    pods,                  \* the API server's pod store, by <<namespace, name>>
    created,               \* pods created so far (the next UID)
    recorder,              \* K8s events handed to the EventRecorder, in order
    terminationTimersMap,  \* Controller.terminationTimersMap, by pod UID
    loops,                 \* the two consumer goroutines started in main
    callbacks,             \* timer callbacks (evictPodFunc closures) running
    faults,                \* API calls that failed though the request was good
    now,                   \* wall clock, in seconds
    cli                    \* the kubectl plugin process (CmdOptions)

webhook == <<handlers, calls>>
chans == <<PodInteractionCh, PodExtensionUpdateCh>>
cluster == <<pods, created, recorder>>
ctrl == <<terminationTimersMap, loops, callbacks>>

vars == <<handlers, calls, PodInteractionCh, PodExtensionUpdateCh, pods, created,
          recorder, terminationTimersMap, loops, callbacks, faults, now, cli>>

----------------------------------------------------------------------------
(* Program constants *)

PodExecAdmissionRequestKind == "PodExecOptions"
PodAttachAdmissionRequestKind == "PodAttachOptions"
ImmutableLabelsDisallowMsg ==
    "The following Pod labels cannot be updated or removed once set:"
InvalidAnnotationsValueMsg ==
    "The given annotation has an invalid value set in the Pod object:"

PodInteractionTimestampLabel == "box.com/podInitialInteractionTimestamp"
PodInteractorLabel == "box.com/podInteractorUsername"
PodTTLDurationLabel == "box.com/podTTLDuration"
PodExtendDurationAnnotate == "box.com/podExtendedDuration"
PodExtendRequesterAnnotate == "box.com/podExtensionRequester"
PodTerminationTimeAnnotate == "box.com/podTerminationTime"

StatusOK == 200
StatusBadRequest == 400
StatusForbidden == 403

----------------------------------------------------------------------------
(* Strings *)

Char(s, i) == SubSeq(s, i, i)

Digits == {"0", "1", "2", "3", "4", "5", "6", "7", "8", "9"}

DigitVal(c) ==
    CASE c = "0" -> 0 [] c = "1" -> 1 [] c = "2" -> 2 [] c = "3" -> 3
      [] c = "4" -> 4 [] c = "5" -> 5 [] c = "6" -> 6 [] c = "7" -> 7
      [] c = "8" -> 8 [] c = "9" -> 9

\* a Go map read m[k]: the zero value "" when the key is absent
Lookup(m, k) == IF k \in DOMAIN m THEN m[k] ELSE ""

Has(m, k) == k \in DOMAIN m

\* fmt.Sprintln(a, b, c): operands separated by spaces, newline appended
Sprintln3(a, b, c) == a \o " " \o b \o " " \o c \o "\n"

Sprintln2(a, b) == a \o " " \o b \o "\n"

----------------------------------------------------------------------------
(* time.ParseDuration, in whole seconds *)

DurErr == [ok |-> FALSE, d |-> 0]

\* time.unitMap; the sub-second units are accepted and truncate to 0 s
unitMap == [u \in {"ns", "us", "ms", "s", "m", "h"} |->
               CASE u = "s" -> 1 [] u = "m" -> 60 [] u = "h" -> 3600
                 [] OTHER -> 0]

\* time.leadingInt: consume [0-9]* from position i
RECURSIVE leadingInt(_, _, _)
leadingInt(s, i, v) ==
    IF i <= Len(s) /\ Char(s, i) \in Digits
    THEN leadingInt(s, i + 1, v * 10 + DigitVal(Char(s, i)))
    ELSE [v |-> v, i |-> i]

\* time.leadingFraction: consume [0-9]* from position i, value f / scale
RECURSIVE leadingFraction(_, _, _, _)
leadingFraction(s, i, f, scale) ==
    IF i <= Len(s) /\ Char(s, i) \in Digits
    THEN leadingFraction(s, i + 1, f * 10 + DigitVal(Char(s, i)), scale * 10)
    ELSE [f |-> f, scale |-> scale, i |-> i]

\* end of the unit: first position at or after i holding '.' or a digit
RECURSIVE unitEnd(_, _)
unitEnd(s, i) ==
    IF i <= Len(s) /\ Char(s, i) # "." /\ Char(s, i) \notin Digits
    THEN unitEnd(s, i + 1)
    ELSE i

\* the loop "for s != ''" of time.ParseDuration, from position i, sum so far d
RECURSIVE parseSegments(_, _, _)
parseSegments(s, i, d) ==
    IF i > Len(s) THEN [ok |-> TRUE, d |-> d]
    ELSE IF ~(Char(s, i) = "." \/ Char(s, i) \in Digits) THEN DurErr
    ELSE LET li == leadingInt(s, i, 0)
             pre == li.i # i
             hasDot == li.i <= Len(s) /\ Char(s, li.i) = "."
             lf == IF hasDot THEN leadingFraction(s, li.i + 1, 0, 1)
                   ELSE [f |-> 0, scale |-> 1, i |-> li.i]
             post == hasDot /\ lf.i # li.i + 1
             ue == unitEnd(s, lf.i)
             u == SubSeq(s, lf.i, ue - 1)
         IN  IF ~pre /\ ~post THEN DurErr
             ELSE IF ue = lf.i THEN DurErr
             ELSE IF u \notin DOMAIN unitMap THEN DurErr
             ELSE parseSegments(s, ue,
                      d + li.v * unitMap[u] + (lf.f * unitMap[u]) \div lf.scale)

ParseDuration(s) ==
    LET signed == s # "" /\ Char(s, 1) \in {"-", "+"}
        neg == signed /\ Char(s, 1) = "-"
        rest == IF signed THEN SubSeq(s, 2, Len(s)) ELSE s
    IN  IF rest = "0" THEN [ok |-> TRUE, d |-> 0]
        ELSE IF rest = "" THEN DurErr
        ELSE LET r == parseSegments(rest, 1, 0)
             IN  IF r.ok /\ neg THEN [ok |-> TRUE, d |-> 0 - r.d] ELSE r

----------------------------------------------------------------------------
(* strconv and time formatting *)

DigitChar(d) == Char("0123456789", d + 1)

RECURSIVE formatNat(_)
formatNat(n) == IF n < 10 THEN DigitChar(n)
                ELSE formatNat(n \div 10) \o DigitChar(n % 10)

\* strconv.FormatInt(n, 10)
FormatInt(n) == IF n < 0 THEN "-" \o formatNat(0 - n) ELSE formatNat(n)

\* strconv.ParseInt(str, 10, 64): an optional sign, then digits only
ParseInt(str) ==
    LET signed == str # "" /\ Char(str, 1) \in {"-", "+"}
        rest == IF signed THEN SubSeq(str, 2, Len(str)) ELSE str
        li == leadingInt(rest, 1, 0)
    IN  IF rest = "" \/ li.i # Len(rest) + 1 THEN [ok |-> FALSE, n |-> 0]
        ELSE [ok |-> TRUE,
              n |-> IF signed /\ Char(str, 1) = "-" THEN 0 - li.v ELSE li.v]

\* time.Duration.String() of d >= 0 whole seconds: "0s", "2s", "10m0s", "1h0m0s"
DurationString(d) ==
    LET h == d \div 3600
        m == (d % 3600) \div 60
        sec == d % 60
    IN  IF h > 0 THEN FormatInt(h) \o "h" \o FormatInt(m) \o "m" \o FormatInt(sec) \o "s"
        ELSE IF m > 0 THEN FormatInt(m) \o "m" \o FormatInt(sec) \o "s"
        ELSE FormatInt(sec) \o "s"

Pad2(n) == IF n < 10 THEN "0" \o FormatInt(n) ELSE FormatInt(n)

\* time.Time.String() of time.Unix(t, 0) in UTC, for instants within a day
\* of the epoch (-86400 <= t < 86400)
TimeString(t) ==
    LET sod == IF t < 0 THEN t + 86400 ELSE t
        date == IF t < 0 THEN "1969-12-31 " ELSE "1970-01-01 "
    IN  date \o Pad2(sod \div 3600) \o ":" \o Pad2((sod % 3600) \div 60) \o ":"
             \o Pad2(sod % 60) \o " +0000 UTC"

\* strings.ReplaceAll(s, old, new) for a one-character old
RECURSIVE ReplaceAll(_, _, _)
ReplaceAll(s, old, new) ==
    IF s = "" THEN ""
    ELSE (IF Char(s, 1) = old THEN new ELSE Char(s, 1))
             \o ReplaceAll(SubSeq(s, 2, Len(s)), old, new)

----------------------------------------------------------------------------
(* Configuration (flags of main) and the bounded input domains *)

\* -interact-chan-size and -extend-chan-size
podInteractChanSize == 1
podExtendChanSize == 1

NsRegular == "ns-regular"
NsExempt == "ns-exempt"
Namespaces == {NsRegular, NsExempt}

\* -namespace-allowlist, as parsed into Server.AllowedNamespaces
AllowedNamespaces == {NsExempt}

\* who asks: the request's uid and userInfo.username
Callers == {[uid |-> "req-1", username |-> "alice"],
            [uid |-> "req-2", username |-> "bob"]}

\* a corev1.Pod as far as the program reads it
PodObj(uid, ns, name, labels, annotations) ==
    [UID |-> uid, Namespace |-> ns, Name |-> name,
     Labels |-> labels, Annotations |-> annotations]

EmptyMap == [k \in {} |-> ""]

\* every map with keys among ks, the value of key k drawn from vals[k]
MapsOver(ks, vals) ==
    UNION {[d -> UNION {vals[k] : k \in d}] : d \in SUBSET ks}

WellValued(m, vals) == \A k \in DOMAIN m : m[k] \in vals[k]

----------------------------------------------------------------------------
(* http.ResponseWriter and the AdmissionReview written to it *)

NoBody == [uid |-> "", allowed |-> FALSE, hasResult |-> FALSE,
           code |-> 0, message |-> ""]

FreshWriter == [status |-> 0, written |-> FALSE, body |-> NoBody]

\* w.WriteHeader(code): only the first status sticks
WriteHeader(w, code) ==
    IF w.status = 0 THEN [w EXCEPT !.status = code] ELSE w

\* w.Write(body): sends the implicit 200 header when none was written
Write(w, body) ==
    [status |-> IF w.status = 0 THEN StatusOK ELSE w.status,
     written |-> TRUE, body |-> body]

writeAdmitResponse_DenyOnError(w, statusCode, req, isAllowed, message) ==
    WriteHeader(
        Write(w, [uid |-> req.uid,
                  allowed |-> isAllowed /\ statusCode = StatusOK,
                  hasResult |-> ~(isAllowed /\ statusCode = StatusOK),
                  code |-> IF ~(isAllowed /\ statusCode = StatusOK)
                           THEN StatusForbidden ELSE 0,
                  message |-> IF ~(isAllowed /\ statusCode = StatusOK)
                              THEN "bad request" ELSE ""]),
        statusCode)

writeAdmitResponse_WrongUID(w, statusCode, req, isAllowed, message) ==
    WriteHeader(
        Write(w, [uid |-> "",
                  allowed |-> isAllowed,
                  hasResult |-> ~isAllowed,
                  code |-> IF ~isAllowed THEN StatusForbidden ELSE 0,
                  message |-> IF ~isAllowed THEN message ELSE ""]),
        statusCode)

writeAdmitResponse(w, statusCode, req, isAllowed, message) ==
    WriteHeader(
        Write(w, [uid |-> req.uid,
                  allowed |-> isAllowed,
                  hasResult |-> ~isAllowed,
                  code |-> IF ~isAllowed THEN StatusForbidden ELSE 0,
                  message |-> IF ~isAllowed THEN message ELSE ""]),
        statusCode)

----------------------------------------------------------------------------
(* AdmitPodInteraction *)

IsAllowedNamespace_Never(ns) == FALSE

IsAllowedNamespace(ns) == ns \in AllowedNamespaces

NoInteraction ==
    [PodName |-> "", PodNamespace |-> "", ContainerName |-> "",
     Username |-> "", Commands |-> <<>>, InitTime |-> 0]

StructErr == [panic |-> FALSE, err |-> TRUE, pi |-> NoInteraction]
StructPanic == [panic |-> TRUE, err |-> FALSE, pi |-> NoInteraction]

getPodInteractionStruct_Reversed(req, t) ==
    [panic |-> FALSE, err |-> FALSE,
     pi |-> [PodName |-> req.name,
             PodNamespace |-> req.namespace,
             ContainerName |-> req.object.container.v,
             Username |-> req.username,
             Commands |-> [i \in 1..Len(req.object.command.v) |->
                 req.object.command.v[Len(req.object.command.v) + 1 - i]],
             InitTime |-> t]]

\* the payload is the decoded JSON document: each of the three members is
\* absent or carries a JSON type; a failed type assertion panics
getPodInteractionStruct(req, t) ==
    LET data == req.object
    IN  IF ~data.json THEN StructErr
        ELSE IF data.kind.t # "string" THEN StructPanic
        ELSE IF data.kind.v # PodExecAdmissionRequestKind
                /\ data.kind.v # PodAttachAdmissionRequestKind THEN StructErr
        ELSE IF data.container.t # "string" THEN StructPanic
        ELSE IF data.command.t # "array" THEN StructPanic
        ELSE IF ~data.command.allStrings THEN StructPanic
        ELSE [panic |-> FALSE, err |-> FALSE,
              pi |-> [PodName |-> req.name,
                      PodNamespace |-> req.namespace,
                      ContainerName |-> data.container.v,
                      Username |-> req.username,
                      Commands |-> [i \in 1..Len(data.command.v) |->
                                       data.command.v[i]],
                      InitTime |-> t]]

\* lines 79-104: everything before the channel send
AdmitPodInteraction(h) ==
    /\ handlers[h].pc = "accepted"
    /\ handlers[h].endpoint = "interaction"
    /\ LET req == handlers[h].req
           w == handlers[h].w
           r == getPodInteractionStruct(req, now)
       IN  handlers' = [handlers EXCEPT ![h] =
             IF ~req.envelopeOK
             THEN [@ EXCEPT !.pc = "done", !.w = WriteHeader(w, StatusBadRequest)]
             ELSE IF IsAllowedNamespace(req.namespace)
             THEN [@ EXCEPT !.pc = "done",
                            !.w = writeAdmitResponse(w, StatusOK, req, TRUE, "")]
             ELSE IF r.panic
             THEN [@ EXCEPT !.pc = "panicked"]
             ELSE IF r.err
             THEN [@ EXCEPT !.pc = "done",
                            !.w = writeAdmitResponse(w, StatusBadRequest, req, TRUE, "")]
             ELSE [@ EXCEPT !.pc = "send", !.pi = r.pi]]
    /\ UNCHANGED <<cli, calls, chans, cluster, ctrl, now, faults>>

\* a send that gives up when the buffer is full: the event is dropped
InteractionSend_NonBlocking(h) ==
    /\ handlers[h].pc = "send"
    /\ handlers[h].endpoint = "interaction"
    /\ PodInteractionCh' = IF Len(PodInteractionCh) < podInteractChanSize
                           THEN Append(PodInteractionCh, handlers[h].pi)
                           ELSE PodInteractionCh
    /\ handlers' = [handlers EXCEPT ![h] =
          [@ EXCEPT !.pc = "done",
                    !.sentI = Append(@, handlers[h].pi),
                    !.w = writeAdmitResponse(handlers[h].w, StatusOK,
                                             handlers[h].req, TRUE, "")]]
    /\ UNCHANGED <<cli, calls, PodExtensionUpdateCh, cluster, ctrl, now, faults>>

\* lines 106-107: the send blocks while the buffer is full; the verdict follows
InteractionSend(h) ==
    /\ handlers[h].pc = "send"
    /\ handlers[h].endpoint = "interaction"
    /\ Len(PodInteractionCh) < podInteractChanSize
    /\ PodInteractionCh' = Append(PodInteractionCh, handlers[h].pi)
    /\ handlers' = [handlers EXCEPT ![h] =
          [@ EXCEPT !.pc = "done",
                    !.sentI = Append(@, handlers[h].pi),
                    !.w = writeAdmitResponse(handlers[h].w, StatusOK,
                                             handlers[h].req, TRUE, "")]]
    /\ UNCHANGED <<cli, calls, PodExtensionUpdateCh, cluster, ctrl, now, faults>>

----------------------------------------------------------------------------
(* AdmitPodUpdate *)

\* lines 154-156
ImmutableLabelsChanged(oldPod, pod) ==
    \/ Lookup(pod.Labels, PodInteractionTimestampLabel)
           # Lookup(oldPod.Labels, PodInteractionTimestampLabel)
    \/ Lookup(pod.Labels, PodTTLDurationLabel)
           # Lookup(oldPod.Labels, PodTTLDurationLabel)

\* line 168
ExtendDurationRejected(newExtendDuration) ==
    newExtendDuration # "" /\ ~ParseDuration(newExtendDuration).ok

NoExtensionUpdate ==
    [Pod |-> PodObj("", "", "", EmptyMap, EmptyMap), Username |-> ""]

UpdateVerdict(w, send, pd) == [w |-> w, send |-> send, pd |-> pd]

Flagged_Always(oldPod) == TRUE

\* lines 137-138
Flagged(oldPod) == Has(oldPod.Labels, PodInteractionTimestampLabel)

\* lines 174-177
PodExtensionUpdateOf(req) ==
    [Pod |-> req.object.pod, Username |-> req.username]

\* lines 112-172 and 181: the response written before or without a send, or
\* the PodExtensionUpdate to send first
AdmitPodUpdateDecide(req, w) ==
    LET oldPod == req.oldObject.pod
        pod == req.object.pod
        oldExtendDuration == Lookup(oldPod.Annotations, PodExtendDurationAnnotate)
        newExtendDuration == Lookup(pod.Annotations, PodExtendDurationAnnotate)
    IN  IF ~req.envelopeOK
        THEN UpdateVerdict(WriteHeader(w, StatusBadRequest), FALSE, NoExtensionUpdate)
        ELSE IF IsAllowedNamespace(req.namespace)
        THEN UpdateVerdict(writeAdmitResponse(w, StatusOK, req, TRUE, ""),
                           FALSE, NoExtensionUpdate)
        ELSE IF ~req.oldObject.ok
        THEN UpdateVerdict(writeAdmitResponse(w, StatusBadRequest, req, TRUE, ""),
                           FALSE, NoExtensionUpdate)
        ELSE IF ~Flagged(oldPod)
        THEN UpdateVerdict(writeAdmitResponse(w, StatusOK, req, TRUE, ""),
                           FALSE, NoExtensionUpdate)
        ELSE IF ~req.object.ok
        THEN UpdateVerdict(
                 writeAdmitResponse(WriteHeader(w, StatusBadRequest),
                                    StatusBadRequest, req, TRUE, ""),
                 FALSE, NoExtensionUpdate)
        ELSE IF ImmutableLabelsChanged(oldPod, pod)
        THEN UpdateVerdict(
                 writeAdmitResponse(w, StatusOK, req, FALSE,
                     Sprintln3(ImmutableLabelsDisallowMsg,
                               PodInteractionTimestampLabel, PodTTLDurationLabel)),
                 FALSE, NoExtensionUpdate)
        ELSE IF oldExtendDuration # newExtendDuration
        THEN IF ExtendDurationRejected(newExtendDuration)
             THEN UpdateVerdict(
                      writeAdmitResponse(w, StatusOK, req, FALSE,
                          Sprintln2(InvalidAnnotationsValueMsg,
                                    PodExtendDurationAnnotate)),
                      FALSE, NoExtensionUpdate)
             ELSE UpdateVerdict(w, TRUE, PodExtensionUpdateOf(req))
        ELSE UpdateVerdict(writeAdmitResponse(w, StatusOK, req, TRUE, ""),
                           FALSE, NoExtensionUpdate)

AdmitPodUpdate(h) ==
    /\ handlers[h].pc = "accepted"
    /\ handlers[h].endpoint = "update"
    /\ LET v == AdmitPodUpdateDecide(handlers[h].req, handlers[h].w)
       IN  handlers' = [handlers EXCEPT ![h] =
             IF v.send THEN [@ EXCEPT !.pc = "send", !.pd = v.pd]
             ELSE [@ EXCEPT !.pc = "done", !.w = v.w]]
    /\ UNCHANGED <<cli, calls, chans, cluster, ctrl, now, faults>>

\* lines 178 and 181
ExtensionSend(h) ==
    /\ handlers[h].pc = "send"
    /\ handlers[h].endpoint = "update"
    /\ Len(PodExtensionUpdateCh) < podExtendChanSize
    /\ PodExtensionUpdateCh' = Append(PodExtensionUpdateCh, handlers[h].pd)
    /\ handlers' = [handlers EXCEPT ![h] =
          [@ EXCEPT !.pc = "done",
                    !.sentE = Append(@, handlers[h].pd),
                    !.w = writeAdmitResponse(handlers[h].w, StatusOK,
                                             handlers[h].req, TRUE, "")]]
    /\ UNCHANGED <<cli, calls, PodInteractionCh, cluster, ctrl, now, faults>>

----------------------------------------------------------------------------
(* kube_helper.go: JSON patches and the termination time *)

typeLabels == "labels"
typeAnnotations == "annotations"

\* a map with key k set to v
Put(m, k, v) == [x \in DOMAIN m \cup {k} |-> IF x = k THEN v ELSE m[x]]

\* lines 132-134: JSON-pointer escaping of the key
EscapeKey(key) == ReplaceAll(ReplaceAll(key, "~", "~0"), "/", "~1")

\* one operation of the patch document; object marks the value {}
getJSONPatchStr(dataType, key, val) ==
    IF key = ""
    THEN [path |-> "/metadata/" \o dataType, object |-> TRUE, value |-> ""]
    ELSE [path |-> "/metadata/" \o dataType \o "/" \o EscapeKey(key),
          object |-> FALSE,
          value |-> IF dataType = typeLabels THEN ReplaceAll(val, ":", "_")
                    ELSE val]

\* an enumeration of a finite set ("for key, val := range dataMap")
RECURSIVE KeySeq(_)
KeySeq(S) ==
    IF S = {} THEN <<>>
    ELSE LET k == CHOOSE x \in S : TRUE IN <<k>> \o KeySeq(S \ {k})

\* lines 102-120: the operations patch() sends, built from the caller's snapshot
patchOps(pod, dataType, dataMap) ==
    LET isEmpty == IF dataType = typeLabels THEN DOMAIN pod.Labels = {}
                   ELSE DOMAIN pod.Annotations = {}
        ks == KeySeq(DOMAIN dataMap)
    IN  (IF isEmpty THEN <<getJSONPatchStr(dataType, "", "")>> ELSE <<>>)
        \o [i \in 1..Len(ks) |-> getJSONPatchStr(dataType, ks[i], dataMap[ks[i]])]

(* The API server's side of types.JSONPatchType (RFC 6902 "add") *)

\* the reference tokens of a JSON pointer: split at "/" from position i
RECURSIVE PointerSplit(_, _, _)
PointerSplit(path, i, cur) ==
    IF i > Len(path) THEN <<cur>>
    ELSE IF Char(path, i) = "/" THEN <<cur>> \o PointerSplit(path, i + 1, "")
    ELSE PointerSplit(path, i + 1, cur \o Char(path, i))

\* decoding of one reference token: "~1" is "/", "~0" is "~"
RECURSIVE PointerUnescape(_)
PointerUnescape(t) ==
    IF t = "" THEN ""
    ELSE IF Len(t) >= 2 /\ SubSeq(t, 1, 2) = "~1"
    THEN "/" \o PointerUnescape(SubSeq(t, 3, Len(t)))
    ELSE IF Len(t) >= 2 /\ SubSeq(t, 1, 2) = "~0"
    THEN "~" \o PointerUnescape(SubSeq(t, 3, Len(t)))
    ELSE Char(t, 1) \o PointerUnescape(SubSeq(t, 2, Len(t)))

PointerTokens(path) ==
    LET raw == Tail(PointerSplit(path, 1, ""))
    IN  [i \in 1..Len(raw) |-> PointerUnescape(raw[i])]

\* a pod document under patching: an empty metadata map is an absent member
PatchDoc(pod) ==
    [ok |-> TRUE, pod |-> pod,
     hasLabels |-> DOMAIN pod.Labels # {},
     hasAnnotations |-> DOMAIN pod.Annotations # {}]

\* "add" replaces an existing member, and fails when the parent is missing
ApplyOp(doc, op) ==
    LET toks == PointerTokens(op.path)
        onLabels == toks[2] = typeLabels
    IN  IF ~doc.ok THEN doc
        ELSE IF Len(toks) = 2
        THEN IF onLabels
             THEN [doc EXCEPT !.pod.Labels = EmptyMap, !.hasLabels = TRUE]
             ELSE [doc EXCEPT !.pod.Annotations = EmptyMap, !.hasAnnotations = TRUE]
        ELSE IF onLabels
        THEN IF doc.hasLabels
             THEN [doc EXCEPT !.pod.Labels = Put(@, toks[3], op.value)]
             ELSE [doc EXCEPT !.ok = FALSE]
        ELSE IF doc.hasAnnotations
             THEN [doc EXCEPT !.pod.Annotations = Put(@, toks[3], op.value)]
             ELSE [doc EXCEPT !.ok = FALSE]

RECURSIVE ApplyOps(_, _)
ApplyOps(doc, ops) ==
    IF ops = <<>> THEN doc ELSE ApplyOps(ApplyOp(doc, Head(ops)), Tail(ops))

PodKey(pod) == <<pod.Namespace, pod.Name>>

\* lines 100-123: Pods(pod.Namespace).Patch(pod.Name, ...) against the store;
\* ok is FALSE when the pod is gone or the document rejects the patch
patch(pod, dataType, dataMap, store) ==
    IF PodKey(pod) \notin DOMAIN store THEN [ok |-> FALSE, pod |-> pod]
    ELSE LET doc == ApplyOps(PatchDoc(store[PodKey(pod)]),
                             patchOps(pod, dataType, dataMap))
         IN  [ok |-> doc.ok, pod |-> doc.pod]

\* lines 170-177
parseUnixTime(str) == ParseInt(str)

\* the extension annotation is not read
getTerminationTime_ExtensionIgnored(pod) ==
    LET interactedTime == parseUnixTime(Lookup(pod.Labels, PodInteractionTimestampLabel))
        ttlDuration == ParseDuration(Lookup(pod.Labels, PodTTLDurationLabel))
    IN  IF ~interactedTime.ok \/ ~ttlDuration.ok THEN [ok |-> FALSE, t |-> 0]
        ELSE [ok |-> TRUE, t |-> interactedTime.n + ttlDuration.d]

\* lines 146-167
getTerminationTime(pod) ==
    LET interactedTime == parseUnixTime(Lookup(pod.Labels, PodInteractionTimestampLabel))
        ttlDuration == ParseDuration(Lookup(pod.Labels, PodTTLDurationLabel))
        present == Has(pod.Annotations, PodExtendDurationAnnotate)
        extendDuration == IF present
                          THEN ParseDuration(pod.Annotations[PodExtendDurationAnnotate])
                          ELSE [ok |-> TRUE, d |-> 0]
    IN  IF ~interactedTime.ok THEN [ok |-> FALSE, t |-> 0]
        ELSE IF ~ttlDuration.ok THEN [ok |-> FALSE, t |-> 0]
        ELSE IF ~extendDuration.ok THEN [ok |-> FALSE, t |-> 0]
        ELSE [ok |-> TRUE, t |-> interactedTime.n + ttlDuration.d + extendDuration.d]

----------------------------------------------------------------------------
(* The controller: Controller, CheckPodInteraction, CheckPodExtensionUpdate *)

\* -ttl-seconds
ttlSeconds == 1

\* NewController: podTTLDuration, in seconds
podTTLDuration == ttlSeconds

\* attempts backoff.RetryNotify makes before the backoff policy says Stop
MaxAttempts == 2

\* API calls that fail over a run for a reason other than the request itself
MaxFaults == 1

\* an API call returns an error: because the request cannot succeed (the pod
\* is gone, the patch does not apply), or as a transient fault
CallFails(mustFail) ==
    IF mustFail THEN UNCHANGED faults
    ELSE faults < MaxFaults /\ faults' = faults + 1

LoopIds == {"interaction", "extension"}

NoPod == PodObj("", "", "", EmptyMap, EmptyMap)

\* a consumer goroutine: where it stands (pc), the operation it is in (op),
\* the attempt of the current item, the last value an operation returned
\* (result), what it logged on an early return (log) and the operation's locals
LoopAt(pc) ==
    [pc |-> pc, op |-> "none", attempt |-> 1, result |-> "none", log |-> "",
     pi |-> NoInteraction, pd |-> NoExtensionUpdate, pod |-> NoPod,
     list |-> <<>>, term |-> 0]

\* the operation returned nil: ebo.Reset(), back to the channel receive
Succeeded(lp) == [LoopAt("recv") EXCEPT !.result = "nil"]

\* the operation is run again without the backoff policy being asked
Failed_AlwaysRetried(lp, start) ==
    [lp EXCEPT !.pc = start, !.result = "err", !.pod = NoPod, !.term = 0]

\* the operation returned an error: RetryNotify runs it again from its first
\* statement, or gives up after the last attempt, logs and drops the item
Failed(lp, start) ==
    IF lp.attempt < MaxAttempts
    THEN [lp EXCEPT !.pc = start, !.attempt = @ + 1, !.result = "err",
                    !.pod = NoPod, !.term = 0]
    ELSE [LoopAt("recv") EXCEPT !.result = "gave up"]

\* the K8s event handed to the recorder: the pod it refers to, which of the
\* three messages it is, and the value the message is formatted from
Notice(pod, kind, text) == [uid |-> pod.UID, kind |-> kind, text |-> text]

\* nil is returned without the event having been handed to the recorder
submitEvent_NothingRecorded(pod, kind, text, rec) == rec

\* kube_helper.go lines 55-71; reference.GetReference returns no error for a
\* *corev1.Pod, whose type is registered in scheme.Scheme
submitEvent(pod, kind, text, rec) == Append(rec, Notice(pod, kind, text))

(* handlePreviousInteraction *)

\* the List is restricted to the namespaces the webhook watches
LabeledPods_WatchedOnly(store) ==
    {store[k] : k \in {x \in DOMAIN store :
                          /\ Has(store[x].Labels, PodInteractionTimestampLabel)
                          /\ ~IsAllowedNamespace(x[1])}}

\* the pods a List with LabelSelector PodInteractionTimestampLabel returns
LabeledPods(store) ==
    {store[k] : k \in {x \in DOMAIN store :
                          Has(store[x].Labels, PodInteractionTimestampLabel)}}

\* lines 397-401, List succeeded
PrevListOK ==
    /\ loops["interaction"].pc = "prev_list"
    /\ loops' = [loops EXCEPT !["interaction"] =
          [@ EXCEPT !.pc = "prev_next", !.op = "prev",
                    !.list = KeySeq(LabeledPods(pods))]]
    /\ UNCHANGED <<cli, webhook, chans, cluster, terminationTimersMap, callbacks, now, faults>>

\* lines 398-401, List failed: the whole reconciliation is retried
PrevListFail ==
    /\ loops["interaction"].pc = "prev_list"
    /\ CallFails(FALSE)
    /\ loops' = [loops EXCEPT !["interaction"] = Failed(@, "prev_list")]
    /\ UNCHANGED <<cli, webhook, chans, cluster, terminationTimersMap, callbacks, now>>

\* lines 403-413: next pod of the list, or return nil
PrevNext ==
    /\ loops["interaction"].pc = "prev_next"
    /\ loops' = [loops EXCEPT !["interaction"] =
          IF @.list = <<>> THEN Succeeded(@)
          ELSE [@ EXCEPT !.pc = "st_patch",
                         !.pod = Head(loops["interaction"].list),
                         !.list = Tail(@)]]
    /\ UNCHANGED <<cli, webhook, chans, cluster, terminationTimersMap, callbacks, now, faults>>

(* setTermination, called by all three operations *)

\* the callers go on whatever setTermination returned
AfterSetTermination_ErrorIgnored(lp, err) ==
    CASE lp.op = "prev" -> [lp EXCEPT !.pc = "prev_next", !.pod = NoPod, !.term = 0]
      [] lp.op = "new" -> Succeeded(lp)
      [] lp.op = "ext" -> [lp EXCEPT !.pc = "ext_requester"]

\* what the caller does with setTermination's return value
AfterSetTermination(lp, err) ==
    CASE lp.op = "prev" -> [lp EXCEPT !.pc = "prev_next", !.pod = NoPod, !.term = 0]
      [] lp.op = "new" -> IF err THEN Failed(lp, "new_get") ELSE Succeeded(lp)
      [] lp.op = "ext" -> IF err THEN Failed(lp, "ext_check")
                          ELSE [lp EXCEPT !.pc = "ext_requester"]

\* lines 475-478: the metadata does not parse
StParseErr(l) ==
    /\ loops[l].pc = "st_patch"
    /\ ~getTerminationTime(loops[l].pod).ok
    /\ loops' = [loops EXCEPT ![l] = AfterSetTermination(@, TRUE)]
    /\ UNCHANGED <<cli, webhook, chans, cluster, terminationTimersMap, callbacks, now, faults>>

\* lines 479-484: the termination-time annotation is patched
StPatchOK(l) ==
    /\ loops[l].pc = "st_patch"
    /\ LET tt == getTerminationTime(loops[l].pod)
           r == patch(loops[l].pod, typeAnnotations,
                      [k \in {PodTerminationTimeAnnotate} |-> TimeString(tt.t)],
                      pods)
       IN  /\ tt.ok
           /\ r.ok
           /\ pods' = [pods EXCEPT ![PodKey(loops[l].pod)] = r.pod]
           /\ loops' = [loops EXCEPT ![l] = [@ EXCEPT !.pc = "st_timer", !.term = tt.t]]
    /\ UNCHANGED <<cli, webhook, chans, created, recorder, terminationTimersMap,
                   callbacks, now, faults>>

\* lines 482-484: the patch call returns an error
StPatchFail(l) ==
    /\ loops[l].pc = "st_patch"
    /\ getTerminationTime(loops[l].pod).ok
    /\ CallFails(~patch(loops[l].pod, typeAnnotations,
                        [k \in {PodTerminationTimeAnnotate} |->
                            TimeString(getTerminationTime(loops[l].pod).t)],
                        pods).ok)
    /\ loops' = [loops EXCEPT ![l] = AfterSetTermination(@, TRUE)]
    /\ UNCHANGED <<cli, webhook, chans, cluster, terminationTimersMap, callbacks, now>>

\* the termination instant is taken for the duration to wait from now
AfterFunc_FromNow(fireAt, name, namespace) ==
    [active |-> TRUE, fireAt |-> now + fireAt, Name |-> name,
     Namespace |-> namespace, runs |-> 0, made |-> 1]

\* time.AfterFunc(d, f): armed, f runs once d has elapsed
AfterFunc(fireAt, name, namespace) ==
    [active |-> TRUE, fireAt |-> fireAt, Name |-> name, Namespace |-> namespace,
     runs |-> 0, made |-> 1]

\* the timer keeps the deadline it had
Reset_KeepsDeadline(timer, fireAt) == [timer EXCEPT !.active = TRUE]

\* Timer.Reset(d): the timer is armed for d from now whether or not it had
\* expired; the return value only tells whether it was still active
Reset(timer, fireAt) == [timer EXCEPT !.active = TRUE, !.fireAt = fireAt]

\* the map is never found to hold a timer
TimerPresent_Never(timers, uid) == FALSE

\* line 488: timer, present := c.terminationTimersMap[pod.UID]
TimerPresent(timers, uid) == uid \in DOMAIN timers

\* lines 486-495 and 501-506: an entry exists, the timer is reset
StTimerReset(l) ==
    /\ loops[l].pc = "st_timer"
    /\ TimerPresent(terminationTimersMap, loops[l].pod.UID)
    /\ LET pod == loops[l].pod
           timer == terminationTimersMap[pod.UID]
       IN  /\ terminationTimersMap' =
                 [terminationTimersMap EXCEPT ![pod.UID] = Reset(timer, loops[l].term)]
           /\ IF ~timer.active
              THEN /\ loops' = [loops EXCEPT ![l] =
                          [AfterSetTermination(@, FALSE) EXCEPT
                              !.log = "failed to reset termination timer"]]
                   /\ UNCHANGED recorder
              ELSE /\ loops' = [loops EXCEPT ![l] = AfterSetTermination(@, FALSE)]
                   /\ recorder' = submitEvent(pod, "evict at",
                                              TimeString(loops[l].term), recorder)
    /\ UNCHANGED <<cli, webhook, chans, pods, created, callbacks, now, faults>>

\* lines 496-506: no entry, a timer is created and stored under the UID;
\* made counts the timers time.AfterFunc has created for the UID
StTimerCreate(l) ==
    /\ loops[l].pc = "st_timer"
    /\ ~TimerPresent(terminationTimersMap, loops[l].pod.UID)
    /\ LET pod == loops[l].pod
       IN  /\ terminationTimersMap' =
                 [u \in DOMAIN terminationTimersMap \cup {pod.UID} |->
                     IF u # pod.UID THEN terminationTimersMap[u]
                     ELSE IF u \in DOMAIN terminationTimersMap
                     THEN [AfterFunc(loops[l].term, pod.Name, pod.Namespace)
                              EXCEPT !.made = terminationTimersMap[u].made + 1]
                     ELSE AfterFunc(loops[l].term, pod.Name, pod.Namespace)]
           /\ loops' = [loops EXCEPT ![l] = AfterSetTermination(@, FALSE)]
           /\ recorder' = submitEvent(pod, "evict at",
                                      TimeString(loops[l].term), recorder)
    /\ UNCHANGED <<cli, webhook, chans, pods, created, callbacks, now, faults>>

(* handleNewInteraction *)

\* the PodInteraction at the head is handled and stays in the channel
InteractionRecv_KeepsItem ==
    /\ loops["interaction"].pc = "recv"
    /\ PodInteractionCh # <<>>
    /\ loops' = [loops EXCEPT !["interaction"] =
          [LoopAt("new_get") EXCEPT !.op = "new", !.pi = Head(PodInteractionCh)]]
    /\ UNCHANGED <<cli, webhook, chans, cluster, terminationTimersMap,
                   callbacks, now, faults>>

\* line 310: the next PodInteraction is received
InteractionRecv ==
    /\ loops["interaction"].pc = "recv"
    /\ PodInteractionCh # <<>>
    /\ PodInteractionCh' = Tail(PodInteractionCh)
    /\ loops' = [loops EXCEPT !["interaction"] =
          [LoopAt("new_get") EXCEPT !.op = "new", !.pi = Head(PodInteractionCh)]]
    /\ UNCHANGED <<cli, webhook, PodExtensionUpdateCh, cluster, terminationTimersMap,
                   callbacks, now, faults>>

\* lines 420-423: Get returns an error (the pod is gone, or the call failed)
NewGetFail ==
    /\ loops["interaction"].pc = "new_get"
    /\ CallFails(<<loops["interaction"].pi.PodNamespace,
                   loops["interaction"].pi.PodName>> \notin DOMAIN pods)
    /\ loops' = [loops EXCEPT !["interaction"] = Failed(@, "new_get")]
    /\ UNCHANGED <<cli, webhook, chans, cluster, terminationTimersMap, callbacks, now>>

AlreadyLabeled_Never(pod) == FALSE

\* line 426
AlreadyLabeled(pod) == Has(pod.Labels, PodInteractionTimestampLabel)

\* lines 420-433: the pod already carries the label, ignored
NewGetLabeled ==
    /\ loops["interaction"].pc = "new_get"
    /\ LET key == <<loops["interaction"].pi.PodNamespace,
                    loops["interaction"].pi.PodName>>
       IN  /\ key \in DOMAIN pods
           /\ AlreadyLabeled(pods[key])
    /\ loops' = [loops EXCEPT !["interaction"] =
          [Succeeded(@) EXCEPT !.log = "already labeled, ignored"]]
    /\ UNCHANGED <<cli, webhook, chans, cluster, terminationTimersMap, callbacks, now, faults>>

\* lines 420-443: the pod is not labeled, the interaction event is submitted
NewGetUnlabeled ==
    /\ loops["interaction"].pc = "new_get"
    /\ LET pi == loops["interaction"].pi
           key == <<pi.PodNamespace, pi.PodName>>
       IN  /\ key \in DOMAIN pods
           /\ ~AlreadyLabeled(pods[key])
           /\ recorder' = submitEvent(pods[key], "interacted", pi.Username, recorder)
           /\ loops' = [loops EXCEPT !["interaction"] =
                  [@ EXCEPT !.pc = "new_labels", !.pod = pods[key]]]
    /\ UNCHANGED <<cli, webhook, chans, pods, created, terminationTimersMap, callbacks,
                   now, faults>>

\* lines 462-468
labelsPatchMap(pi) ==
    [k \in {PodInteractionTimestampLabel, PodInteractorLabel, PodTTLDurationLabel} |->
        CASE k = PodInteractionTimestampLabel -> FormatInt(pi.InitTime)
          [] k = PodInteractorLabel -> pi.Username
          [] k = PodTTLDurationLabel -> DurationString(podTTLDuration)]

\* lines 446-449, setInteractionLabels succeeded
NewLabelsOK ==
    /\ loops["interaction"].pc = "new_labels"
    /\ LET lp == loops["interaction"]
           r == patch(lp.pod, typeLabels, labelsPatchMap(lp.pi), pods)
       IN  /\ r.ok
           /\ pods' = [pods EXCEPT ![PodKey(lp.pod)] = r.pod]
           /\ loops' = [loops EXCEPT !["interaction"] =
                  [@ EXCEPT !.pc = "st_patch", !.pod = r.pod]]
    /\ UNCHANGED <<cli, webhook, chans, created, recorder, terminationTimersMap,
                   callbacks, now, faults>>

\* lines 446-449, setInteractionLabels failed
NewLabelsFail ==
    /\ loops["interaction"].pc = "new_labels"
    /\ CallFails(~patch(loops["interaction"].pod, typeLabels,
                        labelsPatchMap(loops["interaction"].pi), pods).ok)
    /\ loops' = [loops EXCEPT !["interaction"] = Failed(@, "new_get")]
    /\ UNCHANGED <<cli, webhook, chans, cluster, terminationTimersMap, callbacks, now>>

(* handlePodExtensionUpdate *)

\* CheckPodExtensionUpdate returns instead of receiving the waiting item
ExtensionRecv_LoopReturns ==
    /\ loops["extension"].pc = "recv"
    /\ PodExtensionUpdateCh # <<>>
    /\ loops' = [loops EXCEPT !["extension"] = LoopAt("returned")]
    /\ UNCHANGED <<cli, webhook, chans, cluster, terminationTimersMap,
                   callbacks, now, faults>>

\* line 332: the next PodExtensionUpdate is received
ExtensionRecv ==
    /\ loops["extension"].pc = "recv"
    /\ PodExtensionUpdateCh # <<>>
    /\ PodExtensionUpdateCh' = Tail(PodExtensionUpdateCh)
    /\ loops' = [loops EXCEPT !["extension"] =
          [LoopAt("ext_check") EXCEPT !.op = "ext", !.pd = Head(PodExtensionUpdateCh)]]
    /\ UNCHANGED <<cli, webhook, PodInteractionCh, cluster, terminationTimersMap,
                   callbacks, now, faults>>

\* lines 350-357: no timer for the pod's UID, ignored
ExtCheckAbsent ==
    /\ loops["extension"].pc = "ext_check"
    /\ loops["extension"].pd.Pod.UID \notin DOMAIN terminationTimersMap
    /\ loops' = [loops EXCEPT !["extension"] =
          [Succeeded(@) EXCEPT !.log = "no termination timer, ignoring"]]
    /\ UNCHANGED <<cli, webhook, chans, cluster, terminationTimersMap, callbacks, now, faults>>

\* lines 350-360: a timer exists, setTermination(pod) is entered
ExtCheckPresent ==
    /\ loops["extension"].pc = "ext_check"
    /\ loops["extension"].pd.Pod.UID \in DOMAIN terminationTimersMap
    /\ loops' = [loops EXCEPT !["extension"] =
          [@ EXCEPT !.pc = "st_patch", !.pod = loops["extension"].pd.Pod]]
    /\ UNCHANGED <<cli, webhook, chans, cluster, terminationTimersMap, callbacks, now, faults>>

\* lines 364-391: the requester annotation is patched, the event submitted
ExtRequesterOK ==
    /\ loops["extension"].pc = "ext_requester"
    /\ LET lp == loops["extension"]
           r == patch(lp.pod, typeAnnotations,
                      [k \in {PodExtendRequesterAnnotate} |-> lp.pd.Username], pods)
       IN  /\ r.ok
           /\ pods' = [pods EXCEPT ![PodKey(lp.pod)] = r.pod]
           /\ recorder' = submitEvent(r.pod, "extended",
                  Lookup(r.pod.Annotations, PodExtendDurationAnnotate), recorder)
           /\ loops' = [loops EXCEPT !["extension"] = Succeeded(@)]
    /\ UNCHANGED <<cli, webhook, chans, created, terminationTimersMap, callbacks, now, faults>>

\* lines 368-371: the patch call returns an error
ExtRequesterFail ==
    /\ loops["extension"].pc = "ext_requester"
    /\ CallFails(~patch(loops["extension"].pod, typeAnnotations,
                        [k \in {PodExtendRequesterAnnotate} |->
                            loops["extension"].pd.Username], pods).ok)
    /\ loops' = [loops EXCEPT !["extension"] = Failed(@, "ext_check")]
    /\ UNCHANGED <<cli, webhook, chans, cluster, terminationTimersMap, callbacks, now>>

(* The timer map, a plain Go map shared by the two loops without a lock *)

\* the next statement of loop l reads terminationTimersMap (lines 351, 488)
MapAccessing(l) ==
    IF l = "extension" THEN loops[l].pc \in {"ext_check", "st_timer"}
    ELSE loops[l].pc = "st_timer"

\* the next statement of loop l inserts into terminationTimersMap (line 498)
MapWriting(l) ==
    /\ loops[l].pc = "st_timer"
    /\ loops[l].pod.UID \notin DOMAIN terminationTimersMap

(* Timers and evictPodFunc *)

\* the runtime starts the callback of an expired timer in its own goroutine
TimerFire(u) ==
    /\ u \in DOMAIN terminationTimersMap
    /\ terminationTimersMap[u].active
    /\ terminationTimersMap[u].fireAt <= now
    /\ terminationTimersMap' = [terminationTimersMap EXCEPT
          ![u] = [@ EXCEPT !.active = FALSE, !.runs = @ + 1]]
    /\ callbacks' = callbacks \cup
          {<<terminationTimersMap[u].Namespace, terminationTimersMap[u].Name>>}
    /\ UNCHANGED <<cli, webhook, chans, cluster, loops, now, faults>>

\* kube_helper.go lines 76-94: the eviction is accepted, the pod is removed
EvictOK(key) ==
    /\ key \in callbacks
    /\ key \in DOMAIN pods
    /\ callbacks' = callbacks \ {key}
    /\ pods' = [k \in DOMAIN pods \ {key} |-> pods[k]]
    /\ UNCHANGED <<cli, webhook, chans, created, recorder, terminationTimersMap,
                   loops, now, faults>>

\* the callback arms its timer again after a failed eviction
EvictFail_Rearmed(key) ==
    /\ key \in callbacks
    /\ callbacks' = callbacks \ {key}
    /\ terminationTimersMap' =
          [u \in DOMAIN terminationTimersMap |->
              IF <<terminationTimersMap[u].Namespace, terminationTimersMap[u].Name>> = key
              THEN [terminationTimersMap[u] EXCEPT !.active = TRUE]
              ELSE terminationTimersMap[u]]
    /\ UNCHANGED <<cli, webhook, chans, cluster, loops, now, faults>>

\* kube_helper.go lines 82-89: the eviction fails and is only logged
EvictFail(key) ==
    /\ key \in callbacks
    /\ callbacks' = callbacks \ {key}
    /\ UNCHANGED <<cli, webhook, chans, cluster, terminationTimersMap, loops, now, faults>>

----------------------------------------------------------------------------
(* The API server and the cluster around the program *)

HandlerIds == {"h1"}

\* pods created over a run, admission requests sent over a run, clock ticks
MaxPods == 1
MaxRequests == 2
MaxTime == 2

PodNames == {"web"}

NoObject == [ok |-> FALSE, pod |-> NoPod]

\* the AdmissionReview of a CONNECT to pods/exec or pods/attach
ConnectRequest(envelopeOK, caller, ns, name, payload) ==
    [envelopeOK |-> envelopeOK, uid |-> caller.uid, namespace |-> ns,
     name |-> name, username |-> caller.username,
     object |-> payload, oldObject |-> NoObject]

\* the AdmissionReview of an UPDATE of a pod
UpdateRequest(envelopeOK, caller, ns, name, object, oldObject) ==
    [envelopeOK |-> envelopeOK, uid |-> caller.uid, namespace |-> ns,
     name |-> name, username |-> caller.username,
     object |-> object, oldObject |-> oldObject]

NoRequest == ConnectRequest(FALSE, [uid |-> "", username |-> ""], "", "", NoObject)

IdleHandler ==
    [pc |-> "idle", endpoint |-> "none", req |-> NoRequest, w |-> FreshWriter,
     pi |-> NoInteraction, pd |-> NoExtensionUpdate, sentI |-> <<>>, sentE |-> <<>>]

\* net/http hands the request to the handler registered for its path
Accepted(endpoint, req) ==
    [IdleHandler EXCEPT !.pc = "accepted", !.endpoint = endpoint, !.req = req]

\* corev1.PodExecOptions as kubectl exec sends it
ExecOptions(container, command) ==
    [json |-> TRUE,
     kind |-> [t |-> "string", v |-> PodExecAdmissionRequestKind],
     container |-> [t |-> "string", v |-> container],
     command |-> [t |-> "array", v |-> command, allStrings |-> TRUE]]

\* the n-th request of a run is sent by a user other than the one before
CallerOf(n) ==
    IF n % 2 = 1 THEN [uid |-> "req-1", username |-> "alice"]
    ELSE [uid |-> "req-2", username |-> "bob"]

\* kubectl exec on an existing pod
KubectlExec(h, key) ==
    /\ handlers[h].pc = "idle"
    /\ calls < MaxRequests
    /\ key \in DOMAIN pods
    /\ calls' = calls + 1
    /\ handlers' = [handlers EXCEPT ![h] =
          Accepted("interaction",
                   ConnectRequest(TRUE, CallerOf(calls + 1), key[1], key[2],
                                  ExecOptions("main", <<"sh">>)))]
    /\ UNCHANGED <<cli, chans, cluster, ctrl, now, faults>>

\* what a user changes in a pod's metadata
Changes ==
    {[what |-> "annotate", value |-> "1s"],
     [what |-> "annotate", value |-> "1d"],
     [what |-> "unlabel", value |-> ""]}

ApplyChange(pod, ch) ==
    CASE ch.what = "annotate" ->
           [pod EXCEPT !.Annotations = Put(@, PodExtendDurationAnnotate, ch.value)]
      [] ch.what = "label" ->
           [pod EXCEPT !.Labels = Put(Put(@, PodInteractionTimestampLabel, "0"),
                                      PodTTLDurationLabel, ch.value)]
      [] OTHER ->
           [pod EXCEPT !.Labels =
               [k \in DOMAIN @ \ {PodInteractionTimestampLabel} |-> @[k]]]

\* kubectl annotate / label on an existing pod
KubectlUpdate(h, key, ch) ==
    /\ handlers[h].pc = "idle"
    /\ calls < MaxRequests
    /\ key \in DOMAIN pods
    /\ ApplyChange(pods[key], ch) # pods[key]
    /\ calls' = calls + 1
    /\ handlers' = [handlers EXCEPT ![h] =
          Accepted("update",
                   UpdateRequest(TRUE, CallerOf(calls + 1), key[1], key[2],
                                 [ok |-> TRUE, pod |-> ApplyChange(pods[key], ch)],
                                 [ok |-> TRUE, pod |-> pods[key]]))]
    /\ UNCHANGED <<cli, chans, cluster, ctrl, now, faults>>

\* the API server reads the response; an admitted update is stored unless the
\* pod changed meanwhile (resourceVersion conflict) or is gone
ApiRespond(h) ==
    /\ handlers[h].pc \in {"done", "panicked"}
    /\ LET hd == handlers[h]
           key == <<hd.req.namespace, hd.req.name>>
       IN  pods' = IF /\ hd.endpoint = "update"
                      /\ hd.pc = "done"
                      /\ hd.w.written
                      /\ hd.w.body.allowed
                      /\ hd.req.object.ok
                      /\ hd.req.oldObject.ok
                      /\ key \in DOMAIN pods
                      /\ pods[key] = hd.req.oldObject.pod
                   THEN [pods EXCEPT ![key] = hd.req.object.pod]
                   ELSE pods
    /\ handlers' = [handlers EXCEPT ![h] = IdleHandler]
    /\ UNCHANGED <<cli, calls, chans, created, recorder, ctrl, now, faults>>

\* the UIDs the API server gives the pods it creates
PodUID(n) == "uid-" \o FormatInt(n)

PodUIDs == {PodUID(n) : n \in 1..MaxPods}

CreatePod(key) ==
    /\ created < MaxPods
    /\ key \notin DOMAIN pods
    /\ created' = created + 1
    /\ pods' = [k \in DOMAIN pods \cup {key} |->
                  IF k = key
                  THEN PodObj(PodUID(created + 1), key[1], key[2], EmptyMap, EmptyMap)
                  ELSE pods[k]]
    /\ UNCHANGED <<cli, webhook, chans, recorder, ctrl, now, faults>>

DeletePod(key) ==
    /\ key \in DOMAIN pods
    /\ pods' = [k \in DOMAIN pods \ {key} |-> pods[k]]
    /\ UNCHANGED <<cli, webhook, chans, created, recorder, ctrl, now, faults>>

\* a second passes; the runtime has started the callbacks of the timers due
Tick ==
    /\ now < MaxTime
    /\ \A u \in DOMAIN terminationTimersMap :
          terminationTimersMap[u].active => terminationTimersMap[u].fireAt > now
    /\ now' = now + 1
    /\ UNCHANGED <<cli, webhook, chans, cluster, ctrl, faults>>

\* a handler goroutine of a process that has exited
DeadHandler == [IdleHandler EXCEPT !.pc = "dead"]

\* one loop inserts while the other reads: the accesses run at the same time
\* and the Go runtime stops the process with "fatal error: concurrent map
\* read and map write".  When the runtime does not notice, the read returns
\* the entry or not, as StTimerCreate and the other loop's step in either
\* order do.
ConcurrentMapAccess ==
    /\ \E l \in LoopIds : MapWriting(l)
    /\ \A l \in LoopIds : MapAccessing(l)
    /\ loops' = [l \in LoopIds |-> LoopAt("fatal")]
    /\ handlers' = [h \in HandlerIds |-> DeadHandler]
    /\ PodInteractionCh' = <<>>
    /\ PodExtensionUpdateCh' = <<>>
    /\ terminationTimersMap' = [u \in {} |-> AfterFunc(0, "", "")]
    /\ callbacks' = {}
    /\ UNCHANGED <<cli, calls, cluster, now, faults>>

----------------------------------------------------------------------------
(* pkg/plugin: the kubectl plugin "kubectl pi" (pi_helper.go, CmdOptions) *)

cmdGetAction == "get"
cmdExtendAction == "extend"

cmdArgsLengthError == "expecting at least one argument"
cmdInvalidActionError ==
    "expecting an action of either 'get' or 'extend' in the command"
cmdInValidDurationError ==
    "expecting an duration in the following format: 30s, 10m, 6h, 1d, etc"

UpperCase == "ABCDEFGHIJKLMNOPQRSTUVWXYZ"
LowerCase == "abcdefghijklmnopqrstuvwxyz"

\* the lower-case form of one character
LowerChar(c) ==
    IF \E i \in 1..Len(UpperCase) : Char(UpperCase, i) = c
    THEN Char(LowerCase, CHOOSE i \in 1..Len(UpperCase) : Char(UpperCase, i) = c)
    ELSE c

\* strings.ToLower
RECURSIVE ToLower(_)
ToLower(s) ==
    IF s = "" THEN "" ELSE LowerChar(Char(s, 1)) \o ToLower(SubSeq(s, 2, Len(s)))

WhiteSpace == {" ", "\t", "\n", "\r"}

\* strings.TrimSpace
RECURSIVE TrimSpace(_)
TrimSpace(s) ==
    IF s = "" THEN ""
    ELSE IF Char(s, 1) \in WhiteSpace THEN TrimSpace(SubSeq(s, 2, Len(s)))
    ELSE IF Char(s, Len(s)) \in WhiteSpace
    THEN TrimSpace(SubSeq(s, 1, Len(s) - 1))
    ELSE s

\* lines 57-61
isValidAction(action) ==
    ToLower(action) = cmdGetAction \/ ToLower(action) = cmdExtendAction

RECURSIVE AllDigits(_)
AllDigits(s) == s = "" \/ (Head(s) \in Digits /\ AllDigits(Tail(s)))

\* any string with a unit letter at its end passes
isValidDuration_UnitOnly(duration) ==
    /\ Len(duration) >= 1
    /\ Char(duration, Len(duration)) \in {"s", "m", "h", "d"}

\* regexp ^[0-9]+[smhd]$
isValidDuration(duration) ==
    /\ Len(duration) >= 2
    /\ Char(duration, Len(duration)) \in {"s", "m", "h", "d"}
    /\ AllDigits(SubSeq(duration, 1, Len(duration) - 1))

\* lines 72-84: the row of the table printed for a pod
getPodInteractionInfo(pod) ==
    [podName |-> pod.Name,
     interactor |-> Lookup(pod.Labels, PodInteractorLabel),
     ttlDuration |-> Lookup(pod.Labels, PodTTLDurationLabel),
     extension |-> Lookup(pod.Annotations, PodExtendDurationAnnotate),
     requester |-> Lookup(pod.Annotations, PodExtendRequesterAnnotate),
     terminationTime |-> Lookup(pod.Annotations, PodTerminationTimeAnnotate)]

\* lines 107-118: one operation of the patch document
getAnnotatedJsonPatchStr(key, val) ==
    IF key = ""
    THEN [path |-> "/metadata/annotations", object |-> TRUE, value |-> ""]
    ELSE [path |-> "/metadata/annotations/" \o EscapeKey(key),
          object |-> FALSE, value |-> val]

\* lines 89-100: the operations patchAnnotations sends, built from the
\* caller's snapshot of the pod
patchAnnotationsOps(pod, dataMap) ==
    LET ks == KeySeq(DOMAIN dataMap)
    IN  (IF DOMAIN pod.Annotations = {}
         THEN <<getAnnotatedJsonPatchStr("", "")>> ELSE <<>>)
        \o [i \in 1..Len(ks) |-> getAnnotatedJsonPatchStr(ks[i], dataMap[ks[i]])]

\* who runs the plugin
CliCaller == [uid |-> "req-cli", username |-> "carol"]

\* line 102: Pods(pod.Namespace).Patch(pod.Name, ...).  The API server applies
\* the operations to the stored pod and asks the webhook's UPDATE endpoint
\* before it stores the result; ok is FALSE when the pod is gone, the
\* document rejects the patch or the webhook denies the update.
patchAnnotations(pod, dataMap, store) ==
    IF PodKey(pod) \notin DOMAIN store THEN [ok |-> FALSE, pod |-> pod]
    ELSE LET oldPod == store[PodKey(pod)]
             doc == ApplyOps(PatchDoc(oldPod), patchAnnotationsOps(pod, dataMap))
             v == AdmitPodUpdateDecide(
                      UpdateRequest(TRUE, CliCaller, pod.Namespace, pod.Name,
                                    [ok |-> TRUE, pod |-> doc.pod],
                                    [ok |-> TRUE, pod |-> oldPod]),
                      FreshWriter)
         IN  [ok |-> doc.ok /\ (v.send \/ v.w.body.allowed), pod |-> doc.pod]

\* the namespace of the kubectl options (-n)
CliNamespace == NsRegular

\* NewCmdOptions and the flags parsed by cobra: --duration, --all, the
\* positional arguments and the lines waiting on standard input.  fetched,
\* attempted and patched record the API reads made, the pods handed to
\* setExtensionMetadata and the pods a Patch was sent for.
NewCmdOptions(args, duration, all, stdin) ==
    [pc |-> "complete", args |-> args, action |-> "",
     extendDurationStr |-> duration, specifiedAll |-> all,
     podNames |-> <<>>, namespace |-> "", pods |-> <<>>, i |-> 1,
     In |-> stdin, Out |-> <<>>, err |-> "",
     fetched |-> 0, attempted |-> <<>>, patched |-> <<>>]

\* no plugin process
NoCmd == [NewCmdOptions(<<>>, "", FALSE, <<>>) EXCEPT !.pc = "none"]

\* RunE returns err (nil is ""), the process exits
Exit(o, err) == [o EXCEPT !.pc = "exit", !.err = err]

\* a line written to o.Out
Printed(kind, name, text) == [kind |-> kind, pod |-> name, text |-> text]

\* lines 93-127; the kubeconfig loads and the client is built
Complete ==
    /\ cli.pc = "complete"
    /\ cli' = IF Len(cli.args) = 0 THEN Exit(cli, cmdArgsLengthError)
              ELSE [cli EXCEPT !.pc = "validate",
                               !.action = cli.args[1],
                               !.podNames = Tail(cli.args),
                               !.specifiedAll = @ \/ Tail(cli.args) = <<>>,
                               !.namespace = CliNamespace]
    /\ UNCHANGED <<webhook, chans, cluster, ctrl, now, faults>>

\* lines 130-142: the error Validate returns
ValidateError(o) ==
    IF Len(o.action) = 0 \/ ~isValidAction(o.action) THEN cmdInvalidActionError
    ELSE IF o.action = cmdExtendAction /\ ~isValidDuration(o.extendDurationStr)
    THEN cmdInValidDurationError
    ELSE ""

Validate ==
    /\ cli.pc = "validate"
    /\ cli' = IF ValidateError(cli) # "" THEN Exit(cli, ValidateError(cli))
              ELSE [cli EXCEPT !.pc = "fetch"]
    /\ UNCHANGED <<webhook, chans, cluster, ctrl, now, faults>>

\* the names of the pods of a namespace, in the order of a List
RECURSIVE NamesInOrder(_, _, _)
NamesInOrder(store, ns, names) ==
    IF names = <<>> THEN <<>>
    ELSE (IF <<ns, Head(names)>> \in DOMAIN store THEN <<Head(names)>> ELSE <<>>)
             \o NamesInOrder(store, ns, Tail(names))

\* the pod names the cluster may hold, in the API server's (key) order
CliPodNames == <<"db", "web">>

ListPods(store, ns) ==
    LET names == NamesInOrder(store, ns, CliPodNames)
    IN  [k \in 1..Len(names) |-> store[<<ns, names[k]>>]]

\* lines 171-178: --all, the List succeeds
ListOK ==
    /\ cli.pc = "fetch"
    /\ cli.specifiedAll
    /\ cli' = [cli EXCEPT !.pc = "run", !.fetched = @ + 1,
                          !.pods = ListPods(pods, cli.namespace)]
    /\ UNCHANGED <<webhook, chans, cluster, ctrl, now, faults>>

\* lines 174-176: the List fails, Run returns the error
ListFail ==
    /\ cli.pc = "fetch"
    /\ cli.specifiedAll
    /\ CallFails(FALSE)
    /\ cli' = Exit([cli EXCEPT !.fetched = @ + 1], "list failed")
    /\ UNCHANGED <<webhook, chans, cluster, ctrl, now>>

\* the loop of lines 181-190 moves to the next name, or getSpecifiedPods returns
NextName(o) ==
    IF o.i < Len(o.podNames) THEN [o EXCEPT !.i = @ + 1]
    ELSE [o EXCEPT !.pc = "run", !.i = 1]

\* lines 182 and 189: the Get of the i-th name succeeds
GetOK ==
    /\ cli.pc = "fetch"
    /\ ~cli.specifiedAll
    /\ <<cli.namespace, cli.podNames[cli.i]>> \in DOMAIN pods
    /\ cli' = NextName([cli EXCEPT
                 !.fetched = @ + 1,
                 !.pods = Append(@, pods[<<cli.namespace, cli.podNames[cli.i]>>])])
    /\ UNCHANGED <<webhook, chans, cluster, ctrl, now, faults>>

\* lines 183-187: the Get fails; the error is printed and the loop continues
GetFail ==
    /\ cli.pc = "fetch"
    /\ ~cli.specifiedAll
    /\ CallFails(<<cli.namespace, cli.podNames[cli.i]>> \notin DOMAIN pods)
    /\ cli' = NextName([cli EXCEPT
                 !.fetched = @ + 1,
                 !.Out = Append(@, Printed("error", cli.podNames[cli.i],
                                           "get failed"))])
    /\ UNCHANGED <<webhook, chans, cluster, ctrl, now>>

\* lines 151-154
RunNoPods ==
    /\ cli.pc = "run"
    /\ Len(cli.pods) = 0
    /\ cli' = Exit(cli, "no pods returned under the namespace '"
                            \o cli.namespace \o "'\n")
    /\ UNCHANGED <<webhook, chans, cluster, ctrl, now, faults>>

\* lines 157-158 and 197-204: the table, one row per pod
RunGet ==
    /\ cli.pc = "run"
    /\ Len(cli.pods) > 0
    /\ cli.action = cmdGetAction
    /\ cli' = Exit([cli EXCEPT !.Out = @ \o
                      [k \in 1..Len(cli.pods) |->
                          Printed("row", cli.pods[k].Name,
                                  getPodInteractionInfo(cli.pods[k]))]], "")
    /\ UNCHANGED <<webhook, chans, cluster, ctrl, now, faults>>

\* lines 160-161 and 208-209: handleActionExtend calls setExtensionMetadata
\* for the first pod
RunExtend ==
    /\ cli.pc = "run"
    /\ Len(cli.pods) > 0
    /\ cli.action = cmdExtendAction
    /\ cli' = [cli EXCEPT !.pc = "extend", !.i = 1,
                          !.attempted = Append(@, cli.pods[1].Name)]
    /\ UNCHANGED <<webhook, chans, cluster, ctrl, now, faults>>

\* lines 163-164
RunUnknown ==
    /\ cli.pc = "run"
    /\ Len(cli.pods) > 0
    /\ cli.action \notin {cmdGetAction, cmdExtendAction}
    /\ cli' = Exit(cli, "unknown action " \o cli.action)
    /\ UNCHANGED <<webhook, chans, cluster, ctrl, now, faults>>

\* setExtensionMetadata returned nil: the loop of lines 208-212 calls it for
\* the next pod, or handleActionExtend returns nil
NextPod(o) ==
    IF o.i < Len(o.pods)
    THEN [o EXCEPT !.pc = "extend", !.i = @ + 1,
                   !.attempted = Append(@, o.pods[o.i + 1].Name)]
    ELSE Exit(o, "")

\* lines 241-245: a pod without the timestamp label
ExtendNotInteracted ==
    /\ cli.pc = "extend"
    /\ ~Has(cli.pods[cli.i].Labels, PodInteractionTimestampLabel)
    /\ cli' = NextPod([cli EXCEPT !.Out =
                 Append(@, Printed("no interaction", cli.pods[cli.i].Name, ""))])
    /\ UNCHANGED <<webhook, chans, cluster, ctrl, now, faults>>

\* lines 248-250: the pod has an extension already, the user is asked
ExtendWarn ==
    /\ cli.pc = "extend"
    /\ Has(cli.pods[cli.i].Labels, PodInteractionTimestampLabel)
    /\ Has(cli.pods[cli.i].Annotations, PodExtendDurationAnnotate)
    /\ cli' = [cli EXCEPT !.pc = "confirm", !.Out =
                 Append(@, Printed("extension exists", cli.pods[cli.i].Name,
                                   cli.pods[cli.i].Annotations[PodExtendDurationAnnotate]))]
    /\ UNCHANGED <<webhook, chans, cluster, ctrl, now, faults>>

\* lines 280-283 and 251-253: standard input has ended
ConfirmEOF ==
    /\ cli.pc = "confirm"
    /\ cli.In = <<>>
    /\ cli' = Exit(cli, "EOF")
    /\ UNCHANGED <<webhook, chans, cluster, ctrl, now, faults>>

\* line 285
Response(o) == ToLower(TrimSpace(Head(o.In)))

\* lines 286-287
ConfirmYes ==
    /\ cli.pc = "confirm"
    /\ cli.In # <<>>
    /\ Response(cli) \in {"y", "yes"}
    /\ cli' = [cli EXCEPT !.pc = "patch", !.In = Tail(@)]
    /\ UNCHANGED <<webhook, chans, cluster, ctrl, now, faults>>

\* lines 288-289 and 255-257
ConfirmNo ==
    /\ cli.pc = "confirm"
    /\ cli.In # <<>>
    /\ Response(cli) \in {"n", "no"}
    /\ cli' = NextPod([cli EXCEPT !.In = Tail(@)])
    /\ UNCHANGED <<webhook, chans, cluster, ctrl, now, faults>>

\* lines 290-292: asked again
ConfirmInvalid ==
    /\ cli.pc = "confirm"
    /\ cli.In # <<>>
    /\ Response(cli) \notin {"y", "yes", "n", "no"}
    /\ cli' = [cli EXCEPT !.In = Tail(@), !.Out =
                 Append(@, Printed("invalid input", cli.pods[cli.i].Name, ""))]
    /\ UNCHANGED <<webhook, chans, cluster, ctrl, now, faults>>

\* setExtensionMetadata has reached line 262
AtPatch(o) ==
    \/ o.pc = "patch"
    \/ /\ o.pc = "extend"
       /\ Has(o.pods[o.i].Labels, PodInteractionTimestampLabel)
       /\ ~Has(o.pods[o.i].Annotations, PodExtendDurationAnnotate)

\* lines 262-265
ExtensionPatch(o, store) ==
    patchAnnotations(o.pods[o.i],
                     [k \in {PodExtendDurationAnnotate} |-> o.extendDurationStr],
                     store)

\* lines 265-271: the Patch succeeds
ExtendPatchOK ==
    /\ AtPatch(cli)
    /\ LET r == ExtensionPatch(cli, pods)
       IN  /\ r.ok
           /\ pods' = [pods EXCEPT ![PodKey(r.pod)] = r.pod]
           /\ cli' = NextPod([cli EXCEPT
                        !.patched = Append(@, r.pod.Name),
                        !.Out = Append(@, Printed("extended", r.pod.Name,
                                                  cli.extendDurationStr))])
    /\ UNCHANGED <<webhook, chans, created, recorder, ctrl, now, faults>>

\* lines 265-267 and 209-211: the Patch fails; setExtensionMetadata returns
\* the error and handleActionExtend returns it at once
ExtendPatchFail ==
    /\ AtPatch(cli)
    /\ CallFails(~ExtensionPatch(cli, pods).ok)
    /\ cli' = Exit([cli EXCEPT !.patched = Append(@, cli.pods[cli.i].Name)],
                   "patch failed")
    /\ UNCHANGED <<webhook, chans, cluster, ctrl, now>>

----------------------------------------------------------------------------
(* The whole program in a small cluster *)

\* a pod labeled by an earlier incarnation of the controller
PreviouslyInteracted ==
    PodObj(PodUID(1), NsRegular, "web",
           [k \in {PodInteractionTimestampLabel, PodInteractorLabel,
                   PodTTLDurationLabel} |->
               CASE k = PodInteractionTimestampLabel -> "0"
                 [] k = PodInteractorLabel -> "alice"
                 [] k = PodTTLDurationLabel -> DurationString(podTTLDuration)],
           [k \in {PodTerminationTimeAnnotate} |-> TimeString(podTTLDuration)])

\* main: both channels made, both consumer goroutines started, server listening
Init ==
    /\ handlers = [h \in HandlerIds |-> IdleHandler]
    /\ calls = 0
    /\ PodInteractionCh = <<>>
    /\ PodExtensionUpdateCh = <<>>
    /\ \/ pods = [k \in {} |-> NoPod] /\ created = 0
       \/ /\ pods = [k \in {PodKey(PreviouslyInteracted)} |-> PreviouslyInteracted]
          /\ created = 1
    /\ recorder = <<>>
    /\ terminationTimersMap = [u \in {} |-> AfterFunc(0, "", "")]
    /\ loops = [l \in LoopIds |->
                  IF l = "interaction"
                  THEN [LoopAt("prev_list") EXCEPT !.op = "prev"]
                  ELSE LoopAt("recv")]
    /\ callbacks = {}
    /\ faults = 0
    /\ now = 0
    /\ cli = NoCmd

PodKeys == Namespaces \X PodNames

Next ==
    \/ \E h \in HandlerIds, key \in PodKeys : KubectlExec(h, key)
    \/ \E h \in HandlerIds, key \in PodKeys, ch \in Changes :
          KubectlUpdate(h, key, ch)
    \/ \E h \in HandlerIds : AdmitPodInteraction(h)
    \/ \E h \in HandlerIds : InteractionSend(h)
    \/ \E h \in HandlerIds : AdmitPodUpdate(h)
    \/ \E h \in HandlerIds : ExtensionSend(h)
    \/ \E h \in HandlerIds : ApiRespond(h)
    \/ PrevListOK
    \/ PrevListFail
    \/ PrevNext
    \/ \E l \in LoopIds : StParseErr(l)
    \/ \E l \in LoopIds : StPatchOK(l)
    \/ \E l \in LoopIds : StPatchFail(l)
    \/ \E l \in LoopIds : StTimerReset(l)
    \/ \E l \in LoopIds : StTimerCreate(l)
    \/ InteractionRecv
    \/ NewGetFail
    \/ NewGetLabeled
    \/ NewGetUnlabeled
    \/ NewLabelsOK
    \/ NewLabelsFail
    \/ ExtensionRecv
    \/ ExtCheckAbsent
    \/ ExtCheckPresent
    \/ ExtRequesterOK
    \/ ExtRequesterFail
    \/ ConcurrentMapAccess
    \/ \E u \in PodUIDs : TimerFire(u)
    \/ \E key \in PodKeys : EvictOK(key)
    \/ \E key \in PodKeys : EvictFail(key)
    \/ \E key \in PodKeys : CreatePod(key)
    \/ \E key \in PodKeys : DeletePod(key)
    \/ Tick

Spec == Init /\ [][Next]_vars

----------------------------------------------------------------------------
(* Interactions and evictions of one pod, with nobody extending it *)

WatchedKey == <<NsRegular, "web">>

\* the two Patch calls of the interaction loop: they return, with the patched
\* pod or with an error
PatchReturns ==
    \/ \E l \in LoopIds : StPatchOK(l)
    \/ \E l \in LoopIds : StPatchFail(l)
    \/ NewLabelsOK
    \/ NewLabelsFail

\* a loop stands at a Patch call; one of the steps of PatchReturns is then
\* enabled, and taking it moves the loop on
PatchPending == \E l \in LoopIds : loops[l].pc \in {"st_patch", "new_labels"}

\* what else the program, the Go runtime, the clock and the API server do on
\* their own
Running ==
    \/ \E h \in HandlerIds : AdmitPodInteraction(h)
    \/ \E h \in HandlerIds : InteractionSend(h)
    \/ \E h \in HandlerIds : ApiRespond(h)
    \/ PrevListOK
    \/ PrevListFail
    \/ PrevNext
    \/ \E l \in LoopIds : StTimerCreate(l)
    \/ InteractionRecv
    \/ NewGetFail
    \/ NewGetLabeled
    \/ NewGetUnlabeled
    \/ \E u \in PodUIDs : TimerFire(u)
    \/ EvictOK(WatchedKey)
    \/ EvictFail(WatchedKey)
    \/ Tick

\* what the users do: exec into the pod, create it, delete it
NextEvict ==
    \/ \E h \in HandlerIds : KubectlExec(h, WatchedKey)
    \/ CreatePod(WatchedKey)
    \/ DeletePod(WatchedKey)
    \/ PatchReturns
    \/ Running

\* goroutines are scheduled, time passes, due timers fire, calls return.  The
\* weak fairness of PatchReturns is written by its meaning, PatchPending being
\* its enabling condition: the loop does not stand at a Patch call for ever.
FairSpec ==
    /\ Init
    /\ [][NextEvict]_vars
    /\ WF_vars(Running)
    /\ []<>(~PatchPending)

----------------------------------------------------------------------------
(* The two decision endpoints over the whole range of requests *)

LabelValues ==
    [k \in {PodInteractionTimestampLabel, PodTTLDurationLabel} |->
        IF k = PodInteractionTimestampLabel THEN {"", "5", "6"} ELSE {"", "2s", "3s"}]

OldLabelValues ==
    [k \in {PodInteractionTimestampLabel, PodTTLDurationLabel} |->
        IF k = PodInteractionTimestampLabel THEN {"", "5"} ELSE {"", "2s"}]

ExtendValues ==
    [k \in {PodExtendDurationAnnotate} |->
        {"", "2h", "5h", "1d", "-1h", "1h30m", "some-invalid-value"}]

OldExtendValues == [k \in {PodExtendDurationAnnotate} |-> {"2h"}]

MapsWith(vals) == {m \in MapsOver(DOMAIN vals, vals) : WellValued(m, vals)}

\* the objects an UPDATE review carries: undecodable, or a pod
OldObjects ==
    {NoObject} \cup
    {[ok |-> TRUE, pod |-> PodObj(PodUID(1), ns, "web", ls, as)] :
        ns \in Namespaces, ls \in MapsWith(OldLabelValues),
        as \in MapsWith(OldExtendValues)}

NewObjects ==
    {NoObject} \cup
    {[ok |-> TRUE, pod |-> PodObj(PodUID(1), ns, "web", ls, as)] :
        ns \in Namespaces, ls \in MapsWith(LabelValues),
        as \in MapsWith(ExtendValues)}

\* the labels of a pod flagged by alice at second 5 with TTL 2s, the
\* interactor label as it is, renamed or removed
InteractorValues == {"alice", "mallory", ""}

FlaggedLabels(who) ==
    [k \in {PodInteractionTimestampLabel, PodTTLDurationLabel}
            \cup (IF who = "" THEN {} ELSE {PodInteractorLabel}) |->
        CASE k = PodInteractionTimestampLabel -> "5"
          [] k = PodTTLDurationLabel -> "2s"
          [] k = PodInteractorLabel -> who]

\* updates of such a pod that leave everything but the interactor label alone
InteractorUpdates ==
    {UpdateRequest(TRUE, caller, ns, "web",
         [ok |-> TRUE, pod |-> PodObj(PodUID(1), ns, "web", FlaggedLabels(who), as)],
         [ok |-> TRUE, pod |-> PodObj(PodUID(1), ns, "web", FlaggedLabels("alice"), as)]) :
        caller \in Callers, ns \in Namespaces, who \in InteractorValues,
        as \in MapsWith(OldExtendValues)}

UpdateRequests ==
    InteractorUpdates
    \cup
    UNION {{UpdateRequest(TRUE, caller, ns, "web", new, old) :
               caller \in Callers,
               new \in {o \in NewObjects : o.ok => o.pod.Namespace = ns},
               old \in {o \in OldObjects : o.ok => o.pod.Namespace = ns}} :
           ns \in Namespaces}
    \cup
    {UpdateRequest(FALSE, [uid |-> "", username |-> ""], "", "", NoObject, NoObject)}

\* the members of the payload document: absent, of the wrong JSON type, or set
KindMembers ==
    {[t |-> "absent", v |-> ""], [t |-> "number", v |-> ""],
     [t |-> "string", v |-> PodExecAdmissionRequestKind],
     [t |-> "string", v |-> PodAttachAdmissionRequestKind],
     [t |-> "string", v |-> "Pod"]}

ContainerMembers ==
    {[t |-> "absent", v |-> ""], [t |-> "string", v |-> ""],
     [t |-> "string", v |-> "main"]}

CommandMembers ==
    {[t |-> "absent", v |-> <<>>, allStrings |-> TRUE],
     [t |-> "string", v |-> <<>>, allStrings |-> TRUE],
     [t |-> "array", v |-> <<>>, allStrings |-> TRUE],
     [t |-> "array", v |-> <<"sh">>, allStrings |-> TRUE],
     [t |-> "array", v |-> <<"ls", "-l">>, allStrings |-> TRUE],
     [t |-> "array", v |-> <<"ls", "1">>, allStrings |-> FALSE]}

Payloads ==
    {[json |-> FALSE, kind |-> [t |-> "absent", v |-> ""],
      container |-> [t |-> "absent", v |-> ""],
      command |-> [t |-> "absent", v |-> <<>>, allStrings |-> TRUE]]}
    \cup
    {[json |-> TRUE, kind |-> k, container |-> c, command |-> cmd] :
        k \in KindMembers, c \in ContainerMembers, cmd \in CommandMembers}

ConnectRequests ==
    {ConnectRequest(TRUE, caller, ns, "web", payload) :
        caller \in Callers, ns \in Namespaces, payload \in Payloads}
    \cup
    {ConnectRequest(FALSE, [uid |-> "", username |-> ""], "", "",
                    CHOOSE p \in Payloads : ~p.json)}

\* one request has been accepted; the cluster is empty and the startup
\* reconciliation has returned
InitAdmit ==
    /\ \/ \E req \in ConnectRequests :
             handlers = [h \in HandlerIds |-> Accepted("interaction", req)]
       \/ \E req \in UpdateRequests :
             handlers = [h \in HandlerIds |-> Accepted("update", req)]
    /\ calls = 1
    /\ PodInteractionCh = <<>>
    /\ PodExtensionUpdateCh = <<>>
    /\ pods = [k \in {} |-> NoPod]
    /\ created = 0
    /\ recorder = <<>>
    /\ terminationTimersMap = [u \in {} |-> AfterFunc(0, "", "")]
    /\ loops = [l \in LoopIds |-> [LoopAt("recv") EXCEPT !.result = "nil"]]
    /\ callbacks = {}
    /\ faults = 0
    /\ now = 0
    /\ cli = NoCmd

NextAdmit ==
    \/ \E h \in HandlerIds : AdmitPodInteraction(h)
    \/ \E h \in HandlerIds : InteractionSend(h)
    \/ \E h \in HandlerIds : AdmitPodUpdate(h)
    \/ \E h \in HandlerIds : ExtensionSend(h)
    \/ InteractionRecv
    \/ NewGetFail
    \/ ExtensionRecv
    \/ ExtCheckAbsent

SpecAdmit == InitAdmit /\ [][NextAdmit]_vars

----------------------------------------------------------------------------
(* The controller starting in a cluster that holds pods labeled earlier *)

\* the metadata an earlier incarnation, or a user, left on the pods
BootTimestamps == {"0", "1", "x"}
BootTTLs == {"1s", "1d"}
BootExtensions == {"1s", ""}

\* a labeled pod; its termination-time annotation is out of date
BootPod(n, ns, ts, ttl, annotations) ==
    PodObj(PodUID(n), ns, "web",
           [k \in {PodInteractionTimestampLabel, PodInteractorLabel,
                   PodTTLDurationLabel} |->
               CASE k = PodInteractionTimestampLabel -> ts
                 [] k = PodInteractorLabel -> "alice"
                 [] k = PodTTLDurationLabel -> ttl],
           annotations)

\* no annotations at all, or an extension and the stale termination time
BootAnnotations ==
    {EmptyMap} \cup
    {[k \in {PodExtendDurationAnnotate, PodTerminationTimeAnnotate} |->
         IF k = PodExtendDurationAnnotate THEN e ELSE TimeString(0)] :
        e \in BootExtensions}

BootPods(n, ns) ==
    {BootPod(n, ns, ts, ttl, as) :
        ts \in BootTimestamps, ttl \in BootTTLs, as \in BootAnnotations}

\* one labeled pod in a regular namespace, alone or next to one in an
\* allow-listed namespace
BootStores ==
    {[k \in {PodKey(p)} |-> p] : p \in BootPods(1, NsRegular)}
    \cup
    {[k \in {PodKey(p), PodKey(q)} |-> IF k = PodKey(p) THEN p ELSE q] :
        p \in BootPods(1, NsRegular), q \in BootPods(2, NsExempt)}

BootUIDs == {PodUID(1), PodUID(2)}

InitBoot ==
    /\ handlers = [h \in HandlerIds |-> IdleHandler]
    /\ calls = 0
    /\ PodInteractionCh = <<>>
    /\ PodExtensionUpdateCh = <<>>
    /\ pods \in BootStores
    /\ created = Cardinality(DOMAIN pods)
    /\ recorder = <<>>
    /\ terminationTimersMap = [u \in {} |-> AfterFunc(0, "", "")]
    /\ loops = [l \in LoopIds |->
                  IF l = "interaction"
                  THEN [LoopAt("prev_list") EXCEPT !.op = "prev"]
                  ELSE LoopAt("recv")]
    /\ callbacks = {}
    /\ faults = 0
    /\ now = 0
    /\ cli = NoCmd

NextBoot ==
    \/ PrevListOK
    \/ PrevListFail
    \/ PrevNext
    \/ \E l \in LoopIds : StParseErr(l)
    \/ \E l \in LoopIds : StPatchOK(l)
    \/ \E l \in LoopIds : StPatchFail(l)
    \/ \E l \in LoopIds : StTimerCreate(l)
    \/ \E u \in BootUIDs : TimerFire(u)
    \/ \E key \in PodKeys : EvictOK(key)
    \/ \E key \in PodKeys : EvictFail(key)
    \/ \E key \in PodKeys : DeletePod(key)
    \/ Tick

SpecBoot == InitBoot /\ [][NextBoot]_vars

----------------------------------------------------------------------------
(* The kubectl plugin run once against a cluster *)

\* what a pod of the cluster has been through: nothing, an interaction, an
\* interaction and an extension
CliPodStates == {"plain", "flagged", "extended"}

CliPod(n, name, st) ==
    PodObj(PodUID(n), CliNamespace, name,
           IF st = "plain" THEN EmptyMap
           ELSE [k \in {PodInteractionTimestampLabel, PodInteractorLabel,
                        PodTTLDurationLabel} |->
                    CASE k = PodInteractionTimestampLabel -> "0"
                      [] k = PodInteractorLabel -> "alice"
                      [] k = PodTTLDurationLabel -> DurationString(podTTLDuration)],
           CASE st = "plain" -> EmptyMap
             [] st = "flagged" ->
                  [k \in {PodTerminationTimeAnnotate} |-> TimeString(podTTLDuration)]
             [] st = "extended" ->
                  [k \in {PodTerminationTimeAnnotate, PodExtendDurationAnnotate,
                          PodExtendRequesterAnnotate} |->
                     CASE k = PodTerminationTimeAnnotate ->
                              TimeString(podTTLDuration + 1)
                       [] k = PodExtendDurationAnnotate -> "1s"
                       [] k = PodExtendRequesterAnnotate -> "bob"])

\* the clusters the plugin is run against: none, one or both of the pods
CliStores ==
    UNION {{[key \in {CliNamespace} \X names |->
                CliPod(IF key[2] = "db" THEN 1 ELSE 2, key[2], st[key[2]])] :
            st \in [names -> CliPodStates]} : names \in SUBSET {"db", "web"}}

\* the first argument
CliActions == {"get", "extend", "Extend", "delete"}

\* the pod names after it
CliNameArgs == {<<>>, <<"web">>, <<"db", "web">>, <<"gone", "web">>}

CliArgs == {<<>>} \cup {<<a>> \o ns : a \in CliActions, ns \in CliNameArgs}

\* --duration
CliDurations ==
    {"60s", "30m", "2h", "1d", "", "123", "30 minutes", "abc", "s", "1ds"}

\* what the user types when asked
CliInputs == {<<>>, <<"y\n">>, <<"n\n">>, <<"maybe\n", " Yes \n">>}

InitCLI ==
    /\ handlers = [h \in HandlerIds |-> IdleHandler]
    /\ calls = 0
    /\ PodInteractionCh = <<>>
    /\ PodExtensionUpdateCh = <<>>
    /\ pods \in CliStores
    /\ created = 2
    /\ recorder = <<>>
    /\ terminationTimersMap = [u \in {} |-> AfterFunc(0, "", "")]
    /\ loops = [l \in LoopIds |-> [LoopAt("recv") EXCEPT !.result = "nil"]]
    /\ callbacks = {}
    /\ faults = 0
    /\ now = 0
    /\ \E args \in CliArgs, duration \in CliDurations, all \in BOOLEAN,
          stdin \in CliInputs :
          cli = NewCmdOptions(args, duration, all, stdin)

NextCLI ==
    \/ Complete
    \/ Validate
    \/ ListOK
    \/ ListFail
    \/ GetOK
    \/ GetFail
    \/ RunNoPods
    \/ RunGet
    \/ RunExtend
    \/ RunUnknown
    \/ ExtendNotInteracted
    \/ ExtendWarn
    \/ ConfirmEOF
    \/ ConfirmYes
    \/ ConfirmNo
    \/ ConfirmInvalid
    \/ ExtendPatchOK
    \/ ExtendPatchFail

SpecCLI == InitCLI /\ [][NextCLI]_vars

----------------------------------------------------------------------------
(* One pod whose write-once labels its users also try to set and remove *)

\* kubectl label: the timestamp and TTL labels set by hand, the timestamp
\* label removed
LabelChanges ==
    {[what |-> "label", value |-> "2s"],
     [what |-> "unlabel", value |-> ""]}

InitLabel ==
    /\ handlers = [h \in HandlerIds |-> IdleHandler]
    /\ calls = 0
    /\ PodInteractionCh = <<>>
    /\ PodExtensionUpdateCh = <<>>
    /\ pods = [k \in {WatchedKey} |->
                  PodObj(PodUID(1), NsRegular, "web", EmptyMap, EmptyMap)]
    /\ created = 1
    /\ recorder = <<>>
    /\ terminationTimersMap = [u \in {} |-> AfterFunc(0, "", "")]
    /\ loops = [l \in LoopIds |->
                  IF l = "interaction"
                  THEN [LoopAt("prev_list") EXCEPT !.op = "prev"]
                  ELSE LoopAt("recv")]
    /\ callbacks = {}
    /\ faults = 0
    /\ now = 0
    /\ cli = NoCmd

NextLabel ==
    \/ \E h \in HandlerIds : KubectlExec(h, WatchedKey)
    \/ \E h \in HandlerIds, ch \in LabelChanges : KubectlUpdate(h, WatchedKey, ch)
    \/ \E h \in HandlerIds : AdmitPodInteraction(h)
    \/ \E h \in HandlerIds : InteractionSend(h)
    \/ \E h \in HandlerIds : AdmitPodUpdate(h)
    \/ \E h \in HandlerIds : ApiRespond(h)
    \/ PrevListOK
    \/ PrevListFail
    \/ PrevNext
    \/ \E l \in LoopIds : StPatchOK(l)
    \/ \E l \in LoopIds : StPatchFail(l)
    \/ \E l \in LoopIds : StTimerCreate(l)
    \/ InteractionRecv
    \/ NewGetFail
    \/ NewGetLabeled
    \/ NewGetUnlabeled
    \/ NewLabelsOK
    \/ NewLabelsFail
    \/ \E u \in PodUIDs : TimerFire(u)
    \/ EvictOK(WatchedKey)
    \/ EvictFail(WatchedKey)
    \/ Tick

SpecLabel == InitLabel /\ [][NextLabel]_vars

----------------------------------------------------------------------------
(* A flagged pod that is deleted and created again under its name *)

\* the pod of an earlier run of the cluster, flagged by an earlier controller
ReusedPod ==
    [PreviouslyInteracted EXCEPT !.UID = PodUID(0)]

InitReuse ==
    /\ handlers = [h \in HandlerIds |-> IdleHandler]
    /\ calls = 0
    /\ PodInteractionCh = <<>>
    /\ PodExtensionUpdateCh = <<>>
    /\ pods = [k \in {WatchedKey} |-> ReusedPod]
    /\ created = 0
    /\ recorder = <<>>
    /\ terminationTimersMap = [u \in {} |-> AfterFunc(0, "", "")]
    /\ loops = [l \in LoopIds |->
                  IF l = "interaction"
                  THEN [LoopAt("prev_list") EXCEPT !.op = "prev"]
                  ELSE LoopAt("recv")]
    /\ callbacks = {}
    /\ faults = 0
    /\ now = 0
    /\ cli = NoCmd

NextReuse ==
    \/ \E h \in HandlerIds : KubectlExec(h, WatchedKey)
    \/ \E h \in HandlerIds : AdmitPodInteraction(h)
    \/ \E h \in HandlerIds : InteractionSend(h)
    \/ \E h \in HandlerIds : ApiRespond(h)
    \/ PrevListOK
    \/ PrevListFail
    \/ PrevNext
    \/ \E l \in LoopIds : StPatchOK(l)
    \/ \E l \in LoopIds : StPatchFail(l)
    \/ \E l \in LoopIds : StTimerCreate(l)
    \/ InteractionRecv
    \/ NewGetFail
    \/ NewGetLabeled
    \/ NewGetUnlabeled
    \/ NewLabelsOK
    \/ NewLabelsFail
    \/ \E u \in {PodUID(0)} \cup PodUIDs : TimerFire(u)
    \/ EvictOK(WatchedKey)
    \/ EvictFail(WatchedKey)
    \/ CreatePod(WatchedKey)
    \/ DeletePod(WatchedKey)
    \/ Tick

SpecReuse == InitReuse /\ [][NextReuse]_vars

----------------------------------------------------------------------------
(* Properties of AdmitPodUpdate *)

\* handler h has returned from an UPDATE review it could decode
UpdateReturned(h) ==
    /\ handlers[h].pc = "done"
    /\ handlers[h].endpoint = "update"
    /\ handlers[h].req.envelopeOK

\* both objects of h's review decode, the namespace is not exempt and the
\* old object carries the interaction-timestamp label
FlaggedUpdate(h) ==
    /\ handlers[h].req.namespace \notin AllowedNamespaces
    /\ handlers[h].req.oldObject.ok
    /\ handlers[h].req.object.ok
    /\ PodInteractionTimestampLabel \in DOMAIN handlers[h].req.oldObject.pod.Labels

OldLabels(h) == handlers[h].req.oldObject.pod.Labels
NewLabels(h) == handlers[h].req.object.pod.Labels
OldAnnotations(h) == handlers[h].req.oldObject.pod.Annotations
NewAnnotations(h) == handlers[h].req.object.pod.Annotations

\* key k is set in the old map, and removed or set to another value in the new
ChangedOrRemoved(old, new, k) ==
    k \in DOMAIN old /\ (k \notin DOMAIN new \/ new[k] # old[k])

\* key k is the same in both maps: absent in both, or set to one value
SameAt(old, new, k) ==
    (k \in DOMAIN old) = (k \in DOMAIN new) /\ (k \in DOMAIN old => old[k] = new[k])

\* key k is set in the new map to a value it did not have in the old one
ChangedTo(old, new, k) ==
    k \in DOMAIN new /\ (k \notin DOMAIN old \/ old[k] # new[k])

DeniedWith(h, message) ==
    /\ handlers[h].w.written
    /\ ~handlers[h].w.body.allowed
    /\ handlers[h].w.body.message = message

Allowed(h) == handlers[h].w.written /\ handlers[h].w.body.allowed

ImmutableLabelsReason ==
    Sprintln3(ImmutableLabelsDisallowMsg, PodInteractionTimestampLabel,
              PodTTLDurationLabel)

InvalidAnnotationReason ==
    Sprintln2(InvalidAnnotationsValueMsg, PodExtendDurationAnnotate)

\* C1: an update in a non-exempt namespace of a pod whose old object carries
\* the interaction-timestamp label, in which that label or the TTL label is
\* removed or given another value, is denied with the immutable-labels reason
\* and publishes no PodExtensionUpdate.
C1_WriteOnceAtBoundary ==
    \A h \in HandlerIds :
        (/\ UpdateReturned(h)
         /\ FlaggedUpdate(h)
         /\ \/ ChangedOrRemoved(OldLabels(h), NewLabels(h),
                                PodInteractionTimestampLabel)
            \/ ChangedOrRemoved(OldLabels(h), NewLabels(h), PodTTLDurationLabel))
        => /\ DeniedWith(h, ImmutableLabelsReason)
           /\ handlers[h].sentE = <<>>

\* the update removes an interaction-timestamp label whose value is the empty
\* string, and is allowed
C1_EmptyTimestampRemovedAllowed ==
    \E h \in HandlerIds :
        /\ UpdateReturned(h)
        /\ FlaggedUpdate(h)
        /\ OldLabels(h)[PodInteractionTimestampLabel] = ""
        /\ PodInteractionTimestampLabel \notin DOMAIN NewLabels(h)
        /\ Allowed(h)

\* C2: a request of either endpoint whose namespace is exempt is allowed,
\* whatever it carries, and nothing is sent on either channel.
C2_ExemptBypass ==
    \A h \in HandlerIds :
        (/\ handlers[h].pc # "idle"
         /\ handlers[h].req.envelopeOK
         /\ handlers[h].req.namespace \in AllowedNamespaces)
        => /\ handlers[h].pc \in {"accepted", "done"}
           /\ handlers[h].pc = "done" => Allowed(h) /\ ~handlers[h].w.body.hasResult
           /\ handlers[h].sentI = <<>>
           /\ handlers[h].sentE = <<>>
           /\ PodInteractionCh = <<>>
           /\ PodExtensionUpdateCh = <<>>

\* an exempt update that removes the timestamp label and sets an unparseable
\* extension has been answered, and an exempt exec has been answered
C2_ExemptLabelChangeAnswered ==
    \E h \in HandlerIds :
        /\ UpdateReturned(h)
        /\ handlers[h].req.namespace \in AllowedNamespaces
        /\ handlers[h].req.oldObject.ok /\ handlers[h].req.object.ok
        /\ ChangedOrRemoved(OldLabels(h), NewLabels(h), PodInteractionTimestampLabel)
        /\ OldLabels(h)[PodInteractionTimestampLabel] = "5"
        /\ ChangedTo(OldAnnotations(h), NewAnnotations(h), PodExtendDurationAnnotate)
        /\ NewAnnotations(h)[PodExtendDurationAnnotate] = "some-invalid-value"
        /\ Allowed(h)

\* C3: an update of a flagged pod in a non-exempt namespace that leaves both
\* immutable labels as they were and changes the extension annotation to a
\* value that is not digits followed by one of s, m, h, d is denied with the
\* invalid-annotation reason and publishes no PodExtensionUpdate.
C3_DeniedExtension ==
    \A h \in HandlerIds :
        (/\ UpdateReturned(h)
         /\ FlaggedUpdate(h)
         /\ SameAt(OldLabels(h), NewLabels(h), PodInteractionTimestampLabel)
         /\ SameAt(OldLabels(h), NewLabels(h), PodTTLDurationLabel)
         /\ ChangedTo(OldAnnotations(h), NewAnnotations(h), PodExtendDurationAnnotate)
         /\ ~isValidDuration(NewAnnotations(h)[PodExtendDurationAnnotate]))
        => /\ DeniedWith(h, InvalidAnnotationReason)
           /\ handlers[h].sentE = <<>>

\* the extension annotation was changed to "-1h", the update was allowed and
\* a PodExtensionUpdate carrying it was published
C3_NegativeExtensionPublished ==
    \E h \in HandlerIds :
        /\ UpdateReturned(h)
        /\ FlaggedUpdate(h)
        /\ Allowed(h)
        /\ Len(handlers[h].sentE) = 1
        /\ PodExtendDurationAnnotate \in DOMAIN handlers[h].sentE[1].Pod.Annotations
        /\ handlers[h].sentE[1].Pod.Annotations[PodExtendDurationAnnotate] = "-1h"

\* the conditions under which C4 expects a PodExtensionUpdate
ExtensionExpected(h) ==
    /\ FlaggedUpdate(h)
    /\ SameAt(OldLabels(h), NewLabels(h), PodInteractionTimestampLabel)
    /\ SameAt(OldLabels(h), NewLabels(h), PodTTLDurationLabel)
    /\ ChangedTo(OldAnnotations(h), NewAnnotations(h), PodExtendDurationAnnotate)
    /\ isValidDuration(NewAnnotations(h)[PodExtendDurationAnnotate])

\* C4: AdmitPodUpdate publishes a PodExtensionUpdate exactly when the request
\* is in a non-exempt namespace, the old object is flagged, both immutable
\* labels are unchanged and the extension annotation changed to a valid
\* duration; the event carries the new object and the username and the verdict
\* is allow; with the annotation unchanged the verdict is allow with no event.
C4_ExtensionPublishedIff ==
    \A h \in HandlerIds :
        UpdateReturned(h) =>
            /\ (handlers[h].sentE # <<>>) <=> ExtensionExpected(h)
            /\ ExtensionExpected(h) =>
                  /\ handlers[h].sentE =
                        <<[Pod |-> handlers[h].req.object.pod,
                           Username |-> handlers[h].req.username]>>
                  /\ Allowed(h)
            /\ (/\ FlaggedUpdate(h)
                /\ SameAt(OldLabels(h), NewLabels(h), PodInteractionTimestampLabel)
                /\ SameAt(OldLabels(h), NewLabels(h), PodTTLDurationLabel)
                /\ SameAt(OldAnnotations(h), NewAnnotations(h),
                          PodExtendDurationAnnotate))
               => Allowed(h) /\ handlers[h].sentE = <<>>

\* the extension annotation was changed to "1d" with the labels untouched and
\* the update was denied
C4_DayExtensionDenied ==
    \E h \in HandlerIds :
        /\ UpdateReturned(h)
        /\ ExtensionExpected(h)
        /\ NewAnnotations(h)[PodExtendDurationAnnotate] = "1d"
        /\ DeniedWith(h, InvalidAnnotationReason)
        /\ handlers[h].sentE = <<>>

\* C5: an update whose old object lacks the interaction-timestamp label is
\* allowed and publishes no PodExtensionUpdate, whatever the new object holds.
C5_NeverFlaggedAllowed ==
    \A h \in HandlerIds :
        (/\ handlers[h].endpoint = "update"
         /\ handlers[h].req.envelopeOK
         /\ handlers[h].req.oldObject.ok
         /\ PodInteractionTimestampLabel \notin DOMAIN OldLabels(h))
        => /\ handlers[h].pc \in {"accepted", "done"}
           /\ handlers[h].pc = "done" => Allowed(h) /\ ~handlers[h].w.body.hasResult
           /\ handlers[h].sentE = <<>>

\* an unflagged pod in a non-exempt namespace was given the interaction labels
\* and an unparseable extension, and the update was answered
C5_LabelsAddedToUnflagged ==
    \E h \in HandlerIds :
        /\ UpdateReturned(h)
        /\ handlers[h].req.namespace \notin AllowedNamespaces
        /\ handlers[h].req.oldObject.ok /\ handlers[h].req.object.ok
        /\ PodInteractionTimestampLabel \notin DOMAIN OldLabels(h)
        /\ PodInteractionTimestampLabel \in DOMAIN NewLabels(h)
        /\ PodTTLDurationLabel \in DOMAIN NewLabels(h)
        /\ PodExtendDurationAnnotate \in DOMAIN NewAnnotations(h)
        /\ NewAnnotations(h)[PodExtendDurationAnnotate] = "some-invalid-value"

----------------------------------------------------------------------------
(* Properties of AdmitPodInteraction *)

\* h holds a CONNECT review it could decode, in a non-exempt namespace
InteractionIn(h) ==
    /\ handlers[h].endpoint = "interaction"
    /\ handlers[h].req.envelopeOK
    /\ handlers[h].req.namespace \notin AllowedNamespaces

RecognizedKind(payload) ==
    /\ payload.kind.t = "string"
    /\ payload.kind.v \in {PodExecAdmissionRequestKind, PodAttachAdmissionRequestKind}

\* the payload is a JSON document whose kind is not one of the two recognized
\* kinds, or which has no container or no command member
Malformed(payload) ==
    /\ payload.json
    /\ \/ ~RecognizedKind(payload)
       \/ payload.container.t = "absent"
       \/ payload.command.t = "absent"

\* the payload is a JSON document of a recognized kind with a string container
\* and a command that is a list of strings
WellFormed(payload) ==
    /\ payload.json
    /\ RecognizedKind(payload)
    /\ payload.container.t = "string"
    /\ payload.command.t = "array"
    /\ payload.command.allStrings

\* C6: an interaction request in a non-exempt namespace whose payload kind is
\* not recognized, or whose container or command member is missing, is
\* answered deny with the reason "malformed request" and publishes no
\* PodInteraction.
C6_MalformedDenied ==
    \A h \in HandlerIds :
        (/\ InteractionIn(h)
         /\ Malformed(handlers[h].req.object)
         /\ handlers[h].pc \in {"done", "panicked"})
        => /\ DeniedWith(h, "malformed request")
           /\ handlers[h].sentI = <<>>

\* an exec payload without a container member stopped the handler in the
\* type assertion before any response was written
C6_MissingContainerPanics ==
    \E h \in HandlerIds :
        /\ InteractionIn(h)
        /\ RecognizedKind(handlers[h].req.object)
        /\ handlers[h].req.object.container.t = "absent"
        /\ handlers[h].pc = "panicked"
        /\ handlers[h].w = FreshWriter
        /\ handlers[h].sentI = <<>>

\* C7: a well-formed exec or attach request in a non-exempt namespace is
\* allowed and publishes exactly one PodInteraction, whose pod name, namespace
\* and username are the request's, whose container is the payload's and whose
\* commands are the payload's command list in the same order.
C7_WellFormedPublishesOne ==
    \A h \in HandlerIds :
        (InteractionIn(h) /\ WellFormed(handlers[h].req.object))
        => /\ handlers[h].pc \in {"accepted", "send", "done"}
           /\ handlers[h].pc # "done" =>
                 handlers[h].sentI = <<>> /\ ~handlers[h].w.written
           /\ handlers[h].pc = "done" =>
                 /\ Allowed(h)
                 /\ Len(handlers[h].sentI) = 1
                 /\ handlers[h].sentI[1].PodName = handlers[h].req.name
                 /\ handlers[h].sentI[1].PodNamespace = handlers[h].req.namespace
                 /\ handlers[h].sentI[1].Username = handlers[h].req.username
                 /\ handlers[h].sentI[1].ContainerName =
                       handlers[h].req.object.container.v
                 /\ handlers[h].sentI[1].Commands = handlers[h].req.object.command.v

\* bob's attach with the command list <<"ls", "-l">> was answered
C7_AttachTwoTokensAnswered ==
    \E h \in HandlerIds :
        /\ InteractionIn(h)
        /\ WellFormed(handlers[h].req.object)
        /\ handlers[h].req.object.kind.v = PodAttachAdmissionRequestKind
        /\ handlers[h].req.object.command.v = <<"ls", "-l">>
        /\ handlers[h].req.username = "bob"
        /\ handlers[h].pc = "done"

----------------------------------------------------------------------------
(* Properties of the verdicts *)

\* C8: every verdict envelope written by either endpoint carries the
\* request's uid; a deny carries a result with code 403 and a non-empty
\* message; an allow carries no result.
C8_VerdictEnvelope ==
    \A h \in HandlerIds :
        handlers[h].w.written
        => /\ handlers[h].w.body.uid = handlers[h].req.uid
           /\ ~handlers[h].w.body.allowed =>
                 /\ handlers[h].w.body.hasResult
                 /\ handlers[h].w.body.code = StatusForbidden
                 /\ handlers[h].w.body.message # ""
           /\ handlers[h].w.body.allowed => ~handlers[h].w.body.hasResult

\* both kinds of envelope were written: a deny for request req-2 and an allow
C8_DenyWritten ==
    \E h \in HandlerIds :
        /\ handlers[h].w.written
        /\ ~handlers[h].w.body.allowed
        /\ handlers[h].req.uid = "req-2"
        /\ handlers[h].endpoint = "update"

\* the two validation failures of the update endpoint: an immutable label
\* differs, or the extension annotation was changed to a value that
\* time.ParseDuration, the parser of the controller, rejects
ValidationFails(h) ==
    /\ handlers[h].endpoint = "update"
    /\ FlaggedUpdate(h)
    /\ \/ ~SameAt(OldLabels(h), NewLabels(h), PodInteractionTimestampLabel)
       \/ ~SameAt(OldLabels(h), NewLabels(h), PodTTLDurationLabel)
       \/ /\ ChangedTo(OldAnnotations(h), NewAnnotations(h),
                       PodExtendDurationAnnotate)
          /\ ~ParseDuration(NewAnnotations(h)[PodExtendDurationAnnotate]).ok

\* the paths on which C9 expects allow
AllowPath(h) ==
    \/ handlers[h].req.namespace \in AllowedNamespaces
    \/ handlers[h].endpoint = "interaction"
    \/ /\ handlers[h].endpoint = "update"
       /\ \/ ~handlers[h].req.oldObject.ok
          \/ PodInteractionTimestampLabel \notin DOMAIN OldLabels(h)
          \/ ~handlers[h].req.object.ok
    \/ handlers[h].sentI # <<>>
    \/ handlers[h].sentE # <<>>

C9_DenyOnlyOnValidation ==
    \A h \in HandlerIds :
        (handlers[h].pc = "done" /\ handlers[h].req.envelopeOK)
        => /\ handlers[h].w.written
           /\ ~handlers[h].w.body.allowed => ValidationFails(h)
           /\ AllowPath(h) => handlers[h].w.body.allowed

C9_VerdictKept ==
    \A h \in HandlerIds :
        (handlers[h].pc = "done" /\ handlers'[h].pc = "done")
        => handlers'[h].w = handlers[h].w

----------------------------------------------------------------------------
(* Properties of handleNewInteraction *)

\* the interaction loop takes a step from its Get of a pod that exists and
\* carries the interaction-timestamp label, and the Get does not fail
ConsumesLabeled ==
    /\ loops["interaction"].pc = "new_get"
    /\ loops'["interaction"] # loops["interaction"]
    /\ faults' = faults
    /\ <<loops["interaction"].pi.PodNamespace, loops["interaction"].pi.PodName>>
          \in DOMAIN pods
    /\ PodInteractionTimestampLabel \in DOMAIN
          pods[<<loops["interaction"].pi.PodNamespace,
                 loops["interaction"].pi.PodName>>].Labels

\* C10: when the controller handles a PodInteraction for a pod that already
\* carries the interaction-timestamp label, the pod's labels and annotations,
\* the timer map and the fire time of every timer stay as they are, no event
\* is recorded, and the handler returns nil so that nothing is retried.
C10_LabeledInteractionIgnored ==
    [][ConsumesLabeled =>
          /\ pods' = pods
          /\ terminationTimersMap' = terminationTimersMap
          /\ recorder' = recorder
          /\ callbacks' = callbacks
          /\ loops'["interaction"].pc = "recv"
          /\ loops'["interaction"].result = "nil"]_vars

\* a second interaction with a labeled pod whose timer is armed was ignored
C10_SecondInteractionIgnored ==
    /\ loops["interaction"].pc = "recv"
    /\ loops["interaction"].log = "already labeled, ignored"
    /\ \E key \in DOMAIN pods :
          /\ PodInteractionTimestampLabel \in DOMAIN pods[key].Labels
          /\ pods[key].UID \in DOMAIN terminationTimersMap
          /\ terminationTimersMap[pods[key].UID].active
          /\ PodInteractorLabel \in DOMAIN pods[key].Labels
          /\ pods[key].Labels[PodInteractorLabel] = "alice"

----------------------------------------------------------------------------
(* Properties of getTerminationTime and setTermination *)

\* what the metadata values of the pods stand for, in seconds
SecondsOfTimestamp ==
    [s \in {"0", "1", "2", "3"} |->
        CASE s = "0" -> 0 [] s = "1" -> 1 [] s = "2" -> 2 [] s = "3" -> 3]
SecondsOfDuration == [s \in {"1s", "2s"} |-> IF s = "1s" THEN 1 ELSE 2]

\* the three values the termination time is computed from can all be read
Readable(pod) ==
    /\ Lookup(pod.Labels, PodInteractionTimestampLabel) \in DOMAIN SecondsOfTimestamp
    /\ Lookup(pod.Labels, PodTTLDurationLabel) \in DOMAIN SecondsOfDuration
    /\ PodExtendDurationAnnotate \in DOMAIN pod.Annotations =>
          pod.Annotations[PodExtendDurationAnnotate] \in DOMAIN SecondsOfDuration

\* interaction timestamp + TTL + extension, the extension 0 when absent
ExpectedTermination(pod) ==
    SecondsOfTimestamp[pod.Labels[PodInteractionTimestampLabel]]
    + SecondsOfDuration[pod.Labels[PodTTLDurationLabel]]
    + (IF PodExtendDurationAnnotate \in DOMAIN pod.Annotations
       THEN SecondsOfDuration[pod.Annotations[PodExtendDurationAnnotate]]
       ELSE 0)

\* loop l has computed a termination time and patched it
TerminationComputed(l) == loops[l].pc = "st_timer"

\* loop l leaves the first half of setTermination in this step
SetTerminationSteps(l) == loops[l].pc = "st_patch" /\ loops'[l] # loops[l]

C11_Computed ==
    \A l \in LoopIds :
        TerminationComputed(l) =>
            /\ Readable(loops[l].pod)
            /\ loops[l].term = ExpectedTermination(loops[l].pod)

C11_ErrorLeavesAll ==
    \A l \in LoopIds :
        (SetTerminationSteps(l) /\ ~Readable(loops[l].pod)) =>
            /\ loops'[l].pc # "st_timer"
            /\ pods' = pods
            /\ terminationTimersMap' = terminationTimersMap

\* C11: the termination time setTermination works with is the interaction
\* timestamp plus the TTL plus the extension of the pod's labels and
\* annotation, the extension counting 0 when the annotation is absent; when
\* the timestamp, the TTL or a present extension cannot be parsed,
\* setTermination returns without patching the pod or touching the timer map.
C11_TerminationTime == [](C11_Computed) /\ [][C11_ErrorLeavesAll]_vars

\* a pod with timestamp 1, TTL 1s and extension 1s got termination time 3
C11_ExtendedPodComputed ==
    /\ TerminationComputed("interaction")
    /\ Lookup(loops["interaction"].pod.Labels, PodInteractionTimestampLabel) = "1"
    /\ Lookup(loops["interaction"].pod.Annotations, PodExtendDurationAnnotate) = "1s"
    /\ loops["interaction"].term = 3
    /\ PodKey(loops["interaction"].pod) \in DOMAIN pods
    /\ Lookup(pods[PodKey(loops["interaction"].pod)].Annotations,
              PodTerminationTimeAnnotate) = TimeString(3)

----------------------------------------------------------------------------
(* Properties of the startup reconciliation *)

\* handlePreviousInteraction has returned nil
Reconciled ==
    /\ loops["interaction"].pc = "recv"
    /\ loops["interaction"].result = "nil"

Armed(pod) == pod.UID \in DOMAIN terminationTimersMap

\* the pods still in the store that reconciliation should have armed and
\* did not
Skipped == {k \in DOMAIN pods : Readable(pods[k]) /\ ~Armed(pods[k])}

\* C14: once handlePreviousInteraction has returned nil, every pod that carried
\* the interaction-timestamp label at boot with parseable metadata, in whatever
\* namespace, has its termination-time annotation set to timestamp + TTL +
\* extension and a timer for its UID firing at that time, except a pod on which
\* an API call failed: each failed call costs at most the one pod it was made
\* for, the others are armed all the same.  Pods whose metadata does not
\* parse get no timer.
C14_ReconciliationArms ==
    Reconciled =>
        /\ \A k \in DOMAIN pods :
              IF Readable(pods[k])
              THEN Armed(pods[k]) =>
                      /\ Lookup(pods[k].Annotations, PodTerminationTimeAnnotate)
                            = TimeString(ExpectedTermination(pods[k]))
                      /\ terminationTimersMap[pods[k].UID].fireAt
                            = ExpectedTermination(pods[k])
              ELSE ~Armed(pods[k])
        /\ Cardinality(Skipped) <= faults

\* the patch of the pod in the regular namespace failed; the pod in the
\* allow-listed namespace was armed all the same
C14_OneSkippedOtherArmed ==
    /\ Reconciled
    /\ DOMAIN pods = {<<NsRegular, "web">>, <<NsExempt, "web">>}
    /\ Skipped = {<<NsRegular, "web">>}
    /\ Armed(pods[<<NsExempt, "web">>])
    /\ Lookup(pods[<<NsExempt, "web">>].Annotations, PodTerminationTimeAnnotate)
          = TimeString(ExpectedTermination(pods[<<NsExempt, "web">>]))

----------------------------------------------------------------------------
(* Properties of the channel sends *)

\* handler h has an event to publish and has not got past the send
Sending(h) == handlers[h].pc = "send"

\* the verdict of h's request is written in this step
VerdictAppears(h) == ~handlers[h].w.written /\ handlers'[h].w.written

C18_NoVerdictWhileSending ==
    \A h \in HandlerIds : Sending(h) => ~handlers[h].w.written

C18_VerdictFollowsSend ==
    \A h \in HandlerIds :
        (Sending(h) /\ VerdictAppears(h)) =>
            IF handlers[h].endpoint = "interaction"
            THEN /\ Len(PodInteractionCh) < podInteractChanSize
                 /\ PodInteractionCh' = Append(PodInteractionCh, handlers[h].pi)
            ELSE /\ Len(PodExtensionUpdateCh) < podExtendChanSize
                 /\ PodExtensionUpdateCh' = Append(PodExtensionUpdateCh, handlers[h].pd)

\* C18: in both handlers a request that produced an event gets its verdict
\* only in the step in which the channel takes the event, which needs room in
\* the buffer; while the handler waits at the send, whether or not the buffer
\* is full, nothing has been written to the caller.
C18_PublishBeforeRespond ==
    [](C18_NoVerdictWhileSending) /\ [][C18_VerdictFollowsSend]_vars

\* the buffer still holds the event of the first exec; the handler of the
\* second one waits at the send and has written nothing
C18_BlockedOnFullBuffer ==
    \E h \in HandlerIds :
        /\ Sending(h)
        /\ handlers[h].endpoint = "interaction"
        /\ Len(PodInteractionCh) = podInteractChanSize
        /\ ~handlers[h].w.written
        /\ handlers[h].w.status = 0

----------------------------------------------------------------------------
(* Properties of the timer map *)

\* C19: the interaction loop (startup reconciliation included) and the
\* extension loop are never both at a statement that reads or writes the
\* timer map: the accesses of one loop do not overlap those of the other.
C19_TimerMapExclusive ==
    ~(MapAccessing("interaction") /\ MapAccessing("extension"))

\* the reconciliation was about to insert a timer while the extension loop
\* looked one up; the runtime ended the process
C19_ProcessEndedByMapRace ==
    /\ \A l \in LoopIds : loops[l].pc = "fatal"
    /\ \A h \in HandlerIds : handlers[h].pc = "dead"
    /\ \E k \in DOMAIN pods : Has(pods[k].Labels, PodInteractionTimestampLabel)

----------------------------------------------------------------------------
(* Properties of the retried handleNewInteraction *)

InteractionKey(pi) == <<pi.PodNamespace, pi.PodName>>

\* a retry of handleNewInteraction returns nil in this step
RetryReturnsNil ==
    /\ loops["interaction"].op = "new"
    /\ loops["interaction"].attempt > 1
    /\ loops'["interaction"].pc = "recv"
    /\ loops'["interaction"].result = "nil"

\* some attempt for pi found the pod unlabeled and submitted the notice
FoundUnlabeled(pod, pi, rec) ==
    \E i \in 1..Len(rec) :
        rec[i] = Notice(pod, "interacted", pi.Username)

\* the pod carries the three labels and the termination time, and a timer
\* is kept for its UID
FullyFlagged(pod, timers) ==
    /\ {PodInteractionTimestampLabel, PodInteractorLabel, PodTTLDurationLabel}
          \subseteq DOMAIN pod.Labels
    /\ PodTerminationTimeAnnotate \in DOMAIN pod.Annotations
    /\ pod.UID \in DOMAIN timers

\* C20: when attempts of handleNewInteraction for a pod that exists and was
\* not labeled have failed and a later attempt returns nil, the pod then
\* carries the interaction labels and the termination-time annotation and the
\* timer map holds a timer for its UID.
C20_RetryKeepsInteraction ==
    [][\A key \in PodKeys :
          (/\ RetryReturnsNil
           /\ key = InteractionKey(loops["interaction"].pi)
           /\ key \in DOMAIN pods'
           /\ FoundUnlabeled(pods'[key], loops["interaction"].pi, recorder'))
          => FullyFlagged(pods'[key], terminationTimersMap')]_vars

\* the labels were patched, the patch of the termination time failed, and the
\* retry found the label and returned nil: labeled, no annotation, no timer
C20_LabeledNeverArmed ==
    /\ loops["interaction"].pc = "recv"
    /\ loops["interaction"].result = "nil"
    /\ loops["interaction"].log = "already labeled, ignored"
    /\ \E key \in DOMAIN pods :
          /\ Has(pods[key].Labels, PodInteractionTimestampLabel)
          /\ ~Has(pods[key].Annotations, PodTerminationTimeAnnotate)
          /\ pods[key].UID \notin DOMAIN terminationTimersMap
          /\ \E i \in 1..Len(recorder) :
                recorder[i].uid = pods[key].UID /\ recorder[i].kind = "interacted"

----------------------------------------------------------------------------
(* Properties of handlePodExtensionUpdate *)

\* the extension loop resets, in this step, a timer that is armed and has
\* never expired
ResetsArmedTimer ==
    /\ loops["extension"].pc = "st_timer"
    /\ loops'["extension"].pc = "ext_requester"
    /\ loops["extension"].pod.UID \in DOMAIN terminationTimersMap
    /\ terminationTimersMap[loops["extension"].pod.UID].active
    /\ terminationTimersMap[loops["extension"].pod.UID].runs = 0

\* handlePodExtensionUpdate returns nil in this step
ExtensionReturnsNil ==
    /\ loops["extension"].pc = "ext_requester"
    /\ loops'["extension"].pc = "recv"
    /\ loops'["extension"].result = "nil"

\* after this step the API server still holds the pod itself, not a pod
\* created later under its name
StillStored(pod) ==
    /\ PodKey(pod) \in DOMAIN pods'
    /\ pods'[PodKey(pod)].UID = pod.UID

C13_Rescheduled ==
    ResetsArmedTimer =>
        LET pod == loops["extension"].pod
        IN  /\ Readable(pod)
            /\ terminationTimersMap'[pod.UID].active
            /\ terminationTimersMap'[pod.UID].runs = 0
            /\ terminationTimersMap'[pod.UID].fireAt = ExpectedTermination(pod)
            /\ PodKey(pod) \notin callbacks'
            /\ StillStored(pod) =>
                  Lookup(pods'[PodKey(pod)].Annotations, PodTerminationTimeAnnotate)
                      = TimeString(ExpectedTermination(pod))

C13_RequesterSet ==
    ExtensionReturnsNil =>
        LET pod == loops["extension"].pod
        IN  /\ PodKey(pod) \in DOMAIN pods'
            /\ StillStored(pod) =>
                  /\ Lookup(pods'[PodKey(pod)].Annotations, PodExtendRequesterAnnotate)
                        = loops["extension"].pd.Username
                  /\ Lookup(pods'[PodKey(pod)].Annotations, PodTerminationTimeAnnotate)
                        = TimeString(ExpectedTermination(pod))

\* an eviction is started only by a timer whose deadline has come
C13_FiresAtDeadline ==
    \A u \in DOMAIN terminationTimersMap :
        (/\ u \in DOMAIN terminationTimersMap'
         /\ terminationTimersMap'[u].runs > terminationTimersMap[u].runs)
        => terminationTimersMap[u].fireAt <= now

\* C13: when the extension loop processes a PodExtensionUpdate for a pod whose
\* timer is armed and has not expired, the timer is rescheduled to
\* timestamp + TTL + extension of the event's pod and stays armed, no eviction
\* of the pod is under way, and the termination-time annotation is that same
\* time; an eviction is only ever started by a timer whose deadline has come,
\* so the pod outlives timestamp + TTL; when the operation returns nil the
\* extension-requester annotation is the event's username.
C13_ExtensionTiming ==
    /\ [][C13_Rescheduled]_vars
    /\ [][C13_RequesterSet]_vars
    /\ [][C13_FiresAtDeadline]_vars

\* flagged at 0 with TTL 1s and extended by 1s: at time 1 the pod is still
\* there, its timer armed for time 2, the requester recorded
C13_OutlivesBaseTTL ==
    \E key \in DOMAIN pods :
        /\ Lookup(pods[key].Labels, PodInteractionTimestampLabel) = "0"
        /\ Has(pods[key].Annotations, PodExtendRequesterAnnotate)
        /\ Lookup(pods[key].Annotations, PodTerminationTimeAnnotate) = TimeString(2)
        /\ pods[key].UID \in DOMAIN terminationTimersMap
        /\ terminationTimersMap[pods[key].UID].active
        /\ terminationTimersMap[pods[key].UID].runs = 0
        /\ terminationTimersMap[pods[key].UID].fireAt = 2
        /\ key \notin callbacks
        /\ now >= 1

----------------------------------------------------------------------------
(* Properties of the eviction deadline *)

\* timestamp + TTL of the pod's labels
BaseDeadline(pod) ==
    SecondsOfTimestamp[pod.Labels[PodInteractionTimestampLabel]]
    + SecondsOfDuration[pod.Labels[PodTTLDurationLabel]]

\* the pod stored under key is flagged, no extension has moved its deadline,
\* and the deadline has come
DueUnextended(key) ==
    /\ key \in DOMAIN pods
    /\ Lookup(pods[key].Labels, PodInteractionTimestampLabel)
          \in DOMAIN SecondsOfTimestamp
    /\ Lookup(pods[key].Labels, PodTTLDurationLabel) \in DOMAIN SecondsOfDuration
    /\ ~Has(pods[key].Annotations, PodExtendDurationAnnotate)
    /\ pods[key].UID \in DOMAIN terminationTimersMap =>
          terminationTimersMap[pods[key].UID].fireAt <= BaseDeadline(pods[key])
    /\ now >= BaseDeadline(pods[key])

\* the pod is gone, or its timer has fired and run the eviction call, or an
\* extension has been requested for it meanwhile
EvictedOrExtended(key) ==
    \/ key \notin DOMAIN pods
    \/ /\ pods[key].UID \in DOMAIN terminationTimersMap
       /\ \/ terminationTimersMap[pods[key].UID].runs > 0
          \/ terminationTimersMap[pods[key].UID].fireAt > BaseDeadline(pods[key])
    \/ Has(pods[key].Annotations, PodExtendDurationAnnotate)

\* C12: a pod flagged at T with TTL d for which no extension is processed is
\* evicted once T + d has come: its timer fires and the eviction call is
\* issued (after which the pod is gone, unless the API refuses the eviction),
\* whether it was flagged by a new interaction or re-armed at startup.
C12_EvictedAtDeadline ==
    DueUnextended(WatchedKey) ~> EvictedOrExtended(WatchedKey)

\* the deadline has passed, both loops wait at their channels, nothing is in
\* flight, and the flagged pod has no timer that could evict it
C12_FlaggedPastDeadlineNoTimer ==
    \E key \in {WatchedKey} :
        /\ DueUnextended(key)
        /\ pods[key].UID \notin DOMAIN terminationTimersMap
        /\ \A l \in LoopIds : loops[l].pc = "recv"
        /\ PodInteractionCh = <<>>
        /\ PodExtensionUpdateCh = <<>>
        /\ \A h \in HandlerIds : handlers[h].pc = "idle"

----------------------------------------------------------------------------
(* Properties of the kubectl plugin *)

UnitLetters == {"s", "m", "h", "d"}

\* one or more decimal digits, then one unit letter, then nothing
DigitsThenUnit(s) ==
    \E n \in 1..Len(s) :
        /\ Len(s) = n + 1
        /\ \A i \in 1..n : Char(s, i) \in Digits
        /\ Char(s, n + 1) \in UnitLetters

\* the plugin was asked to extend, with a --duration that fails the check
ExtendWithBadDuration ==
    /\ cli.pc \notin {"none", "complete", "validate"}
    /\ cli.action = cmdExtendAction
    /\ ~isValidDuration(cli.extendDurationStr)

\* C15: isValidDuration accepts exactly the strings made of one or more
\* digits and one unit letter s, m, h or d: "60s", "30m", "2h", "1d" pass and
\* "", "123", "30 minutes", "abc" do not; an extend whose --duration fails the
\* check ends with the invalid-duration error before any pod is read or patched.
C15_DurationChecked ==
    /\ isValidDuration(cli.extendDurationStr)
          <=> DigitsThenUnit(cli.extendDurationStr)
    /\ \A d \in {"60s", "30m", "2h", "1d"} : isValidDuration(d)
    /\ \A d \in {"", "123", "30 minutes", "abc"} : ~isValidDuration(d)
    /\ ExtendWithBadDuration =>
          /\ cli.pc = "exit"
          /\ cli.err = cmdInValidDurationError
          /\ cli.fetched = 0
          /\ cli.attempted = <<>>
          /\ cli.patched = <<>>

\* "kubectl pi extend -d '30 minutes' web" against a cluster that holds the
\* flagged pod has ended with the error
C15_ExtendRejectedUnread ==
    /\ ExtendWithBadDuration
    /\ cli.extendDurationStr = "30 minutes"
    /\ cli.podNames = <<"web">>
    /\ <<CliNamespace, "web">> \in DOMAIN pods
    /\ Has(pods[<<CliNamespace, "web">>].Labels, PodInteractionTimestampLabel)
    /\ cli.pc = "exit"

\* getSpecifiedPods has returned the pods it could fetch by name
FetchedByName ==
    /\ ~cli.specifiedAll
    /\ cli.pc \in {"run", "extend", "confirm", "patch"}

\* the extend batch has ended on the error of a Patch
PatchErrorReturned ==
    /\ cli.pc = "exit"
    /\ cli.action = cmdExtendAction
    /\ cli.err = "patch failed"

\* C16: in get and in extend an error on one pod (a failed Get, a failed
\* Patch) does not end the batch: every name given is fetched, and in extend
\* every pod after a failing one is still handed to setExtensionMetadata.
C16_BatchContinues ==
    /\ FetchedByName => cli.fetched = Len(cli.podNames)
    /\ PatchErrorReturned => Len(cli.attempted) = Len(cli.pods)

\* "kubectl pi extend -d 1d --all" over two flagged pods: the webhook denies
\* the patch of db (no API call failed otherwise), and web was never tried
C16_ExtendStoppedAtFirstError ==
    /\ PatchErrorReturned
    /\ cli.extendDurationStr = "1d"
    /\ faults = 0
    /\ Len(cli.pods) = 2
    /\ cli.attempted = <<"db">>
    /\ cli.patched = <<"db">>
    /\ ~Has(pods[<<CliNamespace, "web">>].Annotations, PodExtendDurationAnnotate)

----------------------------------------------------------------------------
(* Properties of the three interaction labels *)

InteractionLabels ==
    {PodInteractionTimestampLabel, PodInteractorLabel, PodTTLDurationLabel}

\* the old object of h's review carries all three labels, each with a value
AllThreeSet(h) ==
    \A k \in InteractionLabels : Lookup(OldLabels(h), k) # ""

\* C17: once the three interaction labels are set on a pod, no update the
\* webhook admits (outside the exempt namespaces) removes or changes any of
\* them; an update that changes only the interactor label is denied.
C17_AllLabelsWriteOnce ==
    \A h \in HandlerIds :
        (/\ UpdateReturned(h)
         /\ FlaggedUpdate(h)
         /\ AllThreeSet(h)
         /\ Allowed(h))
        => \A k \in InteractionLabels :
               ~ChangedOrRemoved(OldLabels(h), NewLabels(h), k)

\* bob's update turns the interactor of alice's pod into mallory, touches
\* nothing else, and is allowed
C17_InteractorRewritten ==
    \E h \in HandlerIds :
        /\ UpdateReturned(h)
        /\ FlaggedUpdate(h)
        /\ AllThreeSet(h)
        /\ handlers[h].req.username = "bob"
        /\ OldLabels(h)[PodInteractorLabel] = "alice"
        /\ Lookup(NewLabels(h), PodInteractorLabel) = "mallory"
        /\ SameAt(OldLabels(h), NewLabels(h), PodInteractionTimestampLabel)
        /\ SameAt(OldLabels(h), NewLabels(h), PodTTLDurationLabel)
        /\ OldAnnotations(h) = NewAnnotations(h)
        /\ Allowed(h)

----------------------------------------------------------------------------
(* Properties of the timers *)

\* the timer of UID u has fired or been stopped
Expired(u) ==
    /\ u \in DOMAIN terminationTimersMap
    /\ ~terminationTimersMap[u].active

\* loop l resets, in this step, a timer that has expired
ResetsExpiredTimer(l) ==
    /\ loops[l].pc = "st_timer"
    /\ loops'[l].pc \notin {"st_timer", "fatal"}
    /\ Expired(loops[l].pod.UID)

\* the reset changes nothing, the warning is logged, nil is returned
C21_ResetIsNoOp ==
    \A l \in LoopIds :
        ResetsExpiredTimer(l) =>
            /\ terminationTimersMap' = terminationTimersMap
            /\ recorder' = recorder
            /\ loops'[l].log = "failed to reset termination timer"
            /\ loops'[l] = [AfterSetTermination(loops[l], FALSE) EXCEPT
                                !.log = "failed to reset termination timer"]

\* a timer that has expired stays expired
C21_NotReArmed ==
    \A u \in DOMAIN terminationTimersMap :
        (Expired(u) /\ u \in DOMAIN terminationTimersMap')
        => ~terminationTimersMap'[u].active

\* C21: a timer that has fired is not armed again and its eviction callback
\* runs once: setTermination resetting a timer that has fired or been stopped
\* changes nothing, logs the warning and returns nil.
C21_FiresOnce ==
    /\ [][C21_ResetIsNoOp]_vars
    /\ [][C21_NotReArmed]_vars
    /\ [](\A u \in DOMAIN terminationTimersMap : terminationTimersMap[u].runs <= 1)

\* the eviction callback of one timer has been started twice
C21_CallbackRanTwice ==
    \E u \in DOMAIN terminationTimersMap : terminationTimersMap[u].runs = 2

\* loop l completes, in this step, the timer statement of setTermination
ArmsTimer(l) ==
    /\ loops[l].pc = "st_timer"
    /\ loops'[l].pc \notin {"st_timer", "fatal"}

\* arming a UID that has a timer keeps that timer and moves its deadline;
\* arming a UID that has none adds one entry
C22_RescheduledNotDuplicated ==
    \A l \in LoopIds :
        ArmsTimer(l) =>
            LET uid == loops[l].pod.UID
            IN  /\ uid \in DOMAIN terminationTimersMap'
                /\ terminationTimersMap'[uid].fireAt = loops[l].term
                /\ \A u \in DOMAIN terminationTimersMap :
                       /\ u \in DOMAIN terminationTimersMap'
                       /\ terminationTimersMap'[u].made = terminationTimersMap[u].made
                       /\ terminationTimersMap'[u].runs = terminationTimersMap[u].runs
                       /\ u # uid => terminationTimersMap'[u] = terminationTimersMap[u]
                /\ DOMAIN terminationTimersMap' = DOMAIN terminationTimersMap \cup {uid}

\* C22: whatever the interleaving of reconciliation, interaction loop and
\* extension loop, a UID has at most one timer, one timer at most is ever
\* created for it, and arming a UID that has a timer reschedules that timer.
C22_OneTimerPerUID ==
    /\ [](\A u \in DOMAIN terminationTimersMap : terminationTimersMap[u].made = 1)
    /\ [][C22_RescheduledNotDuplicated]_vars

\* the timer the reconciliation created has been rescheduled by the
\* extension loop: one entry, created once, with the extended deadline
C22_SecondArmingRescheduled ==
    /\ loops["extension"].pc = "ext_requester"
    /\ loops["extension"].pod.UID \in DOMAIN terminationTimersMap
    /\ Cardinality(DOMAIN terminationTimersMap) = 1
    /\ terminationTimersMap[loops["extension"].pod.UID].made = 1
    /\ terminationTimersMap[loops["extension"].pod.UID].fireAt = loops["extension"].term
    /\ loops["extension"].term > podTTLDuration

----------------------------------------------------------------------------
(* Properties of the two consumer loops *)

\* handlePreviousInteraction has not yet returned nil or been given up
Reconciling == loops["interaction"].op = "prev"

\* loop l takes, in this step, the next item from its channel
Takes(l) ==
    /\ loops[l].pc = "recv"
    /\ loops'[l].pc \in {"new_get", "ext_check"}

\* C23: neither loop takes an event from its channel before the startup
\* reconciliation has returned nil or has been given up.
C23_ReconciliationFirst ==
    [][Reconciling => \A l \in LoopIds : ~Takes(l)]_vars

\* the reconciliation is still under way, and the extension loop has taken
\* the extension of the flagged pod and ignored it for want of a timer
C23_ExtensionDroppedWhileReconciling ==
    /\ Reconciling
    /\ loops["extension"].pc = "recv"
    /\ loops["extension"].log = "no termination timer, ignoring"
    /\ PodExtensionUpdateCh = <<>>
    /\ \E key \in DOMAIN pods :
          /\ Has(pods[key].Labels, PodInteractionTimestampLabel)
          /\ Has(pods[key].Annotations, PodExtendDurationAnnotate)
          /\ pods[key].UID \notin DOMAIN terminationTimersMap

(***************************************************************************)
(* Properties of the termination time held in two places *)

\* no loop is between the annotation patch and the timer statement for uid
Settled(uid) ==
    \A l \in LoopIds : ~(loops[l].pc = "st_timer" /\ loops[l].pod.UID = uid)

\* the stored annotation of every pod with a timer names the timer's deadline
C24_AnnotationIsDeadline ==
    \A key \in DOMAIN pods :
        LET uid == pods[key].UID
        IN  (uid \in DOMAIN terminationTimersMap /\ Settled(uid)) =>
                Lookup(pods[key].Annotations, PodTerminationTimeAnnotate) =
                    TimeString(terminationTimersMap[uid].fireAt)

\* a completed setTermination leaves the deadline, and the annotation of the
\* pod it was called for, at the time computed from that pod's metadata
C24_ArmedAsComputed ==
    \A l \in LoopIds :
        ArmsTimer(l) =>
            LET pod == loops[l].pod
            IN  /\ Readable(pod)
                /\ terminationTimersMap'[pod.UID].fireAt = ExpectedTermination(pod)
                /\ StillStored(pod) =>
                      Lookup(pods'[PodKey(pod)].Annotations,
                             PodTerminationTimeAnnotate) =
                          TimeString(ExpectedTermination(pod))

BothSet(pod) ==
    /\ PodInteractionTimestampLabel \in DOMAIN pod.Labels
    /\ PodTTLDurationLabel \in DOMAIN pod.Labels

\* a stored pod that carries both labels carries the same values after the step
C25_ValuesKept ==
    \A key \in DOMAIN pods :
        (/\ BothSet(pods[key])
         /\ key \in DOMAIN pods'
         /\ pods'[key].UID = pods[key].UID) =>
            /\ BothSet(pods'[key])
            /\ pods'[key].Labels[PodInteractionTimestampLabel] =
                  pods[key].Labels[PodInteractionTimestampLabel]
            /\ pods'[key].Labels[PodTTLDurationLabel] =
                  pods[key].Labels[PodTTLDurationLabel]

Handling(l) ==
    /\ loops[l].op \in {"new", "ext"}
    /\ loops[l].pc \notin {"recv", "fatal"}

\* how far an attempt has come: every statement of an operation is followed
\* by a later one or by the operation's return
StatementsLeft(pc) ==
    CASE pc \in {"new_get", "ext_check"} -> 4
      [] pc = "new_labels" -> 3
      [] pc = "st_patch" -> 2
      [] pc = "st_timer" -> 1
      [] OTHER -> 0

\* what is left of the handling of the item: attempts, then statements
WorkLeft(lp) == (MaxAttempts - lp.attempt) * 5 + StatementsLeft(lp.pc)

\* the item is on its first to its last attempt
C26_AttemptsBounded ==
    \A l \in LoopIds : Handling(l) => loops[l].attempt \in 1..MaxAttempts

\* every step of a loop on an item brings the end of its handling nearer; a
\* retry is one more attempt at the same item
C26_Progress ==
    \A l \in LoopIds :
        (Handling(l) /\ loops'[l] # loops[l] /\ loops'[l].pc \notin {"recv", "fatal"}) =>
            /\ WorkLeft(loops'[l]) < WorkLeft(loops[l])
            /\ loops'[l].op = loops[l].op
            /\ loops'[l].pi = loops[l].pi
            /\ loops'[l].pd = loops[l].pd
            /\ loops'[l].attempt \in {loops[l].attempt, loops[l].attempt + 1}

\* the handling ends in success, or in giving up on the last attempt; either
\* way nothing is put on a channel, the backoff starts afresh and the loop
\* is at its receive
C26_EndsOrDrops ==
    \A l \in LoopIds :
        (Handling(l) /\ loops'[l].pc = "recv") =>
            /\ loops'[l].result \in {"nil", "gave up"}
            /\ loops'[l].result = "gave up" => loops[l].attempt = MaxAttempts
            /\ loops'[l].attempt = 1
            /\ PodInteractionCh' = PodInteractionCh
            /\ PodExtensionUpdateCh' = PodExtensionUpdateCh

\* C26: an item taken from a channel is attempted a bounded number of times;
\* its handling ends in success or, when the backoff is exhausted, in the item
\* being dropped without being sent to any channel again; in both cases the
\* backoff is reset and the loop goes on to its next receive, so that an item
\* that always fails does not hold a loop for ever.
C26_BoundedRetryAndDrop ==
    /\ []C26_AttemptsBounded
    /\ [][C26_Progress]_vars
    /\ [][C26_EndsOrDrops]_vars

\* a loop has given up on an item whose every attempt failed for the item's
\* own sake, and is back at its receive with a fresh backoff
C26_ItemDropped ==
    /\ faults = 0
    /\ \E l \in LoopIds :
          /\ loops[l].pc = "recv"
          /\ loops[l].result = "gave up"
          /\ loops[l].attempt = 1

(***************************************************************************)
(* Properties of the order of the events *)

\* the process is stopped by the runtime in this step
Crashes == \A l \in LoopIds : loops'[l].pc = "fatal"

\* loop l takes the event at the head of channel ch and starts on it, having
\* ended the handling of the one before
TakesHead(l, ch, chAfter, start, item) ==
    /\ ch # <<>>
    /\ chAfter = Tail(ch)
    /\ loops[l].pc = "recv"
    /\ loops'[l].pc = start
    /\ loops'[l].attempt = 1
    /\ item = Head(ch)

\* a channel changes only by a handler's send, which puts the handler's event
\* behind those already held, or by its loop's receive, which takes the event
\* at the head
C27_QueueSteps ==
    /\ PodInteractionCh' # PodInteractionCh =>
          \/ Crashes
          \/ \E h \in HandlerIds :
                /\ Sending(h) /\ ~Sending(h)'
                /\ handlers[h].endpoint = "interaction"
                /\ PodInteractionCh' = Append(PodInteractionCh, handlers[h].pi)
          \/ TakesHead("interaction", PodInteractionCh, PodInteractionCh',
                       "new_get", loops'["interaction"].pi)
    /\ PodExtensionUpdateCh' # PodExtensionUpdateCh =>
          \/ Crashes
          \/ \E h \in HandlerIds :
                /\ Sending(h) /\ ~Sending(h)'
                /\ handlers[h].endpoint = "update"
                /\ PodExtensionUpdateCh' = Append(PodExtensionUpdateCh, handlers[h].pd)
          \/ TakesHead("extension", PodExtensionUpdateCh, PodExtensionUpdateCh',
                       "ext_check", loops'["extension"].pd)

\* a loop starts on an event only by taking it from its channel, and a
\* handler that leaves its send has put its event on the channel
C27_NothingBesideTheQueue ==
    /\ (loops["interaction"].pc = "recv" /\ loops'["interaction"].pc = "new_get") =>
          PodInteractionCh # <<>> /\ PodInteractionCh' = Tail(PodInteractionCh)
    /\ (loops["extension"].pc = "recv" /\ loops'["extension"].pc = "ext_check") =>
          PodExtensionUpdateCh # <<>> /\ PodExtensionUpdateCh' = Tail(PodExtensionUpdateCh)
    /\ \A l \in LoopIds :
          (Handling(l) /\ loops'[l].pc \notin {"recv", "fatal"}) =>
              /\ loops'[l].pi = loops[l].pi
              /\ loops'[l].pd = loops[l].pd

ChecksTimer ==
    /\ loops["extension"].pc = "ext_check"
    /\ loops'["extension"] # loops["extension"]
    /\ ~Crashes

\* the pod of the update has no timer that is armed: none was made for its
\* UID, or the one made has expired
NoArmedTimer ==
    LET uid == loops["extension"].pd.Pod.UID
    IN  uid \in DOMAIN terminationTimersMap => ~terminationTimersMap[uid].active

C28_Ignored ==
    (ChecksTimer /\ NoArmedTimer) =>
        /\ loops'["extension"].pc = "recv"
        /\ loops'["extension"].result = "nil"
        /\ pods' = pods
        /\ terminationTimersMap' = terminationTimersMap
        /\ recorder' = recorder

\* C28: an extension update consumed for a pod that has no armed timer
\* (never flagged, not yet armed, expired, already evicted) is ignored: no
\* call to the API server, annotations and timer map as they were, no notice,
\* and nil returned so that the update is not retried.
C28_IgnoredWithoutArmedTimer == [][C28_Ignored]_vars

\* the timer of the update's pod has fired, and the extension loop is in
\* setTermination for that pod, about to patch the annotation
C28_ExpiredTimerNotIgnored ==
    /\ loops["extension"].op = "ext"
    /\ loops["extension"].pc = "st_patch"
    /\ Expired(loops["extension"].pod.UID)
    /\ terminationTimersMap[loops["extension"].pod.UID].runs = 1

\* an update for a pod whose UID has no entry in the map is ignored
C28_AbsentIgnored ==
    (ChecksTimer /\ loops["extension"].pd.Pod.UID \notin DOMAIN terminationTimersMap) =>
        /\ loops'["extension"].pc = "recv"
        /\ loops'["extension"].result = "nil"
        /\ pods' = pods
        /\ terminationTimersMap' = terminationTimersMap
        /\ recorder' = recorder

\* the extension loop takes a step of the handling of an update
ExtensionStep(pc) ==
    /\ loops["extension"].op = "ext"
    /\ loops["extension"].pc = pc
    /\ loops'["extension"] # loops["extension"]
    /\ ~Crashes

\* the attempt ended with an error: it is retried from the start or given up
AttemptFailed(l, start) ==
    \/ loops'[l].pc = start /\ loops'[l].result = "err"
                            /\ loops'[l].attempt = loops[l].attempt + 1
    \/ loops'[l].pc = "recv" /\ loops'[l].result = "gave up"

\* the notices of the given kind emitted so far
Emitted(rec, kind) == {i \in DOMAIN rec : rec[i].kind = kind}

\* first the termination-time annotation: nothing else changes, and the timer
\* statement is reached only with the annotation patched
C29_PatchFirst ==
    ExtensionStep("st_patch") =>
        /\ terminationTimersMap' = terminationTimersMap
        /\ recorder' = recorder
        /\ IF loops'["extension"].pc = "st_timer"
           THEN LET pod == loops["extension"].pod
                IN  /\ PodKey(pod) \in DOMAIN pods'
                    /\ Lookup(pods'[PodKey(pod)].Annotations,
                              PodTerminationTimeAnnotate) =
                          TimeString(loops'["extension"].term)
                    /\ ~Has(pods'[PodKey(pod)].Annotations, PodExtendRequesterAnnotate)
                          \/ pods'[PodKey(pod)].Annotations[PodExtendRequesterAnnotate] =
                                Lookup(pods[PodKey(pod)].Annotations,
                                       PodExtendRequesterAnnotate)
           ELSE /\ pods' = pods
                /\ AttemptFailed("extension", "ext_check")

\* then the timer, without a call to the API server; the requester patch is
\* reached only from here
C29_TimerSecond ==
    ExtensionStep("st_timer") =>
        /\ pods' = pods
        /\ loops'["extension"].pc = "ext_requester"
        /\ terminationTimersMap'[loops["extension"].pod.UID].fireAt =
              loops["extension"].term
        /\ terminationTimersMap'[loops["extension"].pod.UID].active
        /\ Emitted(recorder', "extended") = Emitted(recorder, "extended")

\* then the requester annotation and, when it is patched, the notice
C29_RequesterThenNotice ==
    ExtensionStep("ext_requester") =>
        /\ terminationTimersMap' = terminationTimersMap
        /\ IF loops'["extension"].result = "nil"
           THEN LET pod == loops["extension"].pod
                IN  /\ loops'["extension"].pc = "recv"
                    /\ Lookup(pods'[PodKey(pod)].Annotations,
                              PodExtendRequesterAnnotate) =
                          loops["extension"].pd.Username
                    /\ Len(recorder') = Len(recorder) + 1
                    /\ recorder'[Len(recorder')].kind = "extended"
           ELSE /\ pods' = pods
                /\ recorder' = recorder
                /\ AttemptFailed("extension", "ext_check")

\* no step of the extension loop outside these three touches the pods, the
\* timers or the notices
C29_NothingBefore ==
    ExtensionStep("ext_check") =>
        /\ pods' = pods
        /\ terminationTimersMap' = terminationTimersMap
        /\ recorder' = recorder
        /\ loops'["extension"].pc \in {"st_patch", "recv"}

\* C29: an extension update for a pod with a timer is handled in this order:
\* the termination-time annotation is patched, the timer is rescheduled, the
\* extension-requester annotation is patched, the extension notice is
\* emitted; a step that fails ends the attempt, so that no later step of the
\* attempt is performed, and the timer is not rescheduled when the
\* termination-time patch failed.
C29_ExtensionStepOrder ==
    /\ [][C29_NothingBefore]_vars
    /\ [][C29_PatchFirst]_vars
    /\ [][C29_TimerSecond]_vars
    /\ [][C29_RequesterThenNotice]_vars

\* the first attempt at an update failed at the termination-time patch: the
\* second attempt is about to start, the stored annotation and the armed
\* timer still name the time without the extension
C29_PatchFailedTimerKept ==
    /\ loops["extension"].pc = "ext_check"
    /\ loops["extension"].result = "err"
    /\ loops["extension"].attempt = 2
    /\ LET pod == loops["extension"].pd.Pod
       IN  /\ PodKey(pod) \in DOMAIN pods
           /\ pod.UID \in DOMAIN terminationTimersMap
           /\ terminationTimersMap[pod.UID].active
           /\ Readable(pod)
           /\ terminationTimersMap[pod.UID].fireAt + 1 = ExpectedTermination(pod)
           /\ Lookup(pods[PodKey(pod)].Annotations, PodTerminationTimeAnnotate) =
                 TimeString(terminationTimersMap[pod.UID].fireAt)

(***************************************************************************)
(* Properties of handleNewInteraction *)

\* the interaction loop takes a step of the handling of a new interaction
InteractionStep(pc) ==
    /\ loops["interaction"].op = "new"
    /\ loops["interaction"].pc = pc
    /\ loops'["interaction"] # loops["interaction"]
    /\ ~Crashes

\* the pod carries the three labels of the interaction
LabeledFor(pod, pi) ==
    \A k \in DOMAIN labelsPatchMap(pi) : Lookup(pod.Labels, k) = labelsPatchMap(pi)[k]

\* first the notice: the label patch is reached only in the step that emits
\* it, and that step changes neither pods nor timers
C30_NoticeFirst ==
    InteractionStep("new_get") =>
        /\ pods' = pods
        /\ terminationTimersMap' = terminationTimersMap
        /\ IF loops'["interaction"].pc = "new_labels"
           THEN /\ ~AlreadyLabeled(loops'["interaction"].pod)
                /\ recorder' =
                      Append(recorder,
                             Notice(loops'["interaction"].pod, "interacted",
                                    loops["interaction"].pi.Username))
           ELSE /\ recorder' = recorder
                /\ \/ AttemptFailed("interaction", "new_get")
                   \/ /\ loops'["interaction"].pc = "recv"
                      /\ loops'["interaction"].result = "nil"

\* then the labels: setTermination is entered only with the three labels
\* stored, and a failed patch ends the attempt with nothing changed
C30_LabelsSecond ==
    InteractionStep("new_labels") =>
        /\ terminationTimersMap' = terminationTimersMap
        /\ recorder' = recorder
        /\ IF loops'["interaction"].pc = "st_patch"
           THEN LET pod == loops["interaction"].pod
                IN  /\ PodKey(pod) \in DOMAIN pods'
                    /\ LabeledFor(pods'[PodKey(pod)], loops["interaction"].pi)
                    /\ loops'["interaction"].pod = pods'[PodKey(pod)]
           ELSE /\ pods' = pods
                /\ AttemptFailed("interaction", "new_get")

\* then the timer: it is armed for a pod that came back labeled from the
\* patch, after the termination-time annotation
C30_TimerLast ==
    /\ InteractionStep("st_patch") =>
          /\ terminationTimersMap' = terminationTimersMap
          /\ LabeledFor(loops["interaction"].pod, loops["interaction"].pi)
    /\ InteractionStep("st_timer") =>
          /\ pods' = pods
          /\ LabeledFor(loops["interaction"].pod, loops["interaction"].pi)
          /\ terminationTimersMap'[loops["interaction"].pod.UID].active
          /\ loops'["interaction"].pc = "recv"
          /\ loops'["interaction"].result = "nil"

EvictionFails(key) ==
    /\ key \in callbacks
    /\ key \notin callbacks'
    /\ pods' = pods
    /\ ~Crashes

\* a failed eviction ends the callback: no timer is touched, nothing is sent
\* to a loop or a channel, no pod is changed
C31_FailureEndsCallback ==
    \A key \in PodKeys :
        EvictionFails(key) =>
            /\ terminationTimersMap' = terminationTimersMap
            /\ loops' = loops
            /\ PodInteractionCh' = PodInteractionCh
            /\ PodExtensionUpdateCh' = PodExtensionUpdateCh
            /\ recorder' = recorder

\* an eviction is started only by a timer that fires: the one that failed is
\* not started again
C31_StartedByFiringOnly ==
    \A key \in PodKeys :
        (key \in callbacks' /\ key \notin callbacks) =>
            \E u \in DOMAIN terminationTimersMap :
                /\ terminationTimersMap[u].active
                /\ terminationTimersMap[u].fireAt <= now
                /\ ~terminationTimersMap'[u].active
                /\ terminationTimersMap'[u].runs = terminationTimersMap[u].runs + 1
                /\ key = <<terminationTimersMap[u].Namespace, terminationTimersMap[u].Name>>

\* while the process runs no step takes an entry out of the map
C31_EntriesStay ==
    Crashes \/ \A u \in DOMAIN terminationTimersMap : u \in DOMAIN terminationTimersMap'

\* C31: when a timer fires and the eviction fails, the failure is only
\* logged: the eviction is not tried again, the callback does not reschedule
\* the timer, the timer's entry stays in the map, and no operation ever
\* removes an entry from the map.
C31_EvictionFailureTerminal ==
    /\ [][C31_FailureEndsCallback]_vars
    /\ [][C31_StartedByFiringOnly]_vars
    /\ [][C31_EntriesStay]_vars

\* the timer of a pod has fired once, its callback has returned, and the pod
\* is still stored: the eviction failed and the expired timer is in the map
C31_FailedEvictionLeftEntry ==
    /\ callbacks = {}
    /\ \E key \in DOMAIN pods :
          /\ pods[key].UID \in DOMAIN terminationTimersMap
          /\ ~terminationTimersMap[pods[key].UID].active
          /\ terminationTimersMap[pods[key].UID].runs = 1

(***************************************************************************)
(* Properties of the flagged pods at rest *)

\* the controller has nothing to do: reconciliation is over, both loops wait
\* at their receive, both channels are empty and no request is with a handler
Quiescent ==
    /\ \A l \in LoopIds : loops[l].pc = "recv"
    /\ PodInteractionCh = <<>>
    /\ PodExtensionUpdateCh = <<>>
    /\ \A h \in HandlerIds : handlers[h].pc = "idle"

\* C32: whenever the controller is at rest, every stored pod of a watched
\* namespace that carries the interaction-timestamp label has an entry in the
\* timer map under its UID, whether the label came from the controller's
\* patch, from a retried patch or from a user's update of an unflagged pod.
C32_FlaggedImpliesTimer ==
    Quiescent =>
        \A key \in DOMAIN pods :
            (/\ ~IsAllowedNamespace(key[1])
             /\ Has(pods[key].Labels, PodInteractionTimestampLabel)) =>
                pods[key].UID \in DOMAIN terminationTimersMap

\* the controller is at rest, the pod carries the timestamp and TTL labels a
\* user gave it (no interactor label), and the map has no timer for it
C32_UserFlaggedWithoutTimer ==
    /\ Quiescent
    /\ Has(pods[WatchedKey].Labels, PodInteractionTimestampLabel)
    /\ pods[WatchedKey].Labels[PodTTLDurationLabel] = "2s"
    /\ ~Has(pods[WatchedKey].Labels, PodInteractorLabel)
    /\ pods[WatchedKey].UID \notin DOMAIN terminationTimersMap

(***************************************************************************)
(* Properties of the eviction a timer starts *)

\* the pod stored under key is evicted in this step
Evicted(key) ==
    /\ key \in callbacks
    /\ key \notin callbacks'
    /\ key \in DOMAIN pods
    /\ key \notin DOMAIN pods'

\* the timer armed for UID u has fired
Fired(u) ==
    /\ u \in DOMAIN terminationTimersMap
    /\ terminationTimersMap[u].runs >= 1

\* C33: the eviction started by the timer of UID u removes no pod but the one
\* with UID u: a pod created under the name and namespace of a deleted pod is
\* not evicted by the deleted pod's timer.
C33_EvictsOwnUIDOnly ==
    [][\A key \in PodKeys : Evicted(key) => Fired(pods[key].UID)]_vars

\* the callback of the old pod's timer is running, and the pod stored under
\* the name is a new one for which no timer was ever made
C33_CallbackMeetsNewPod ==
    /\ WatchedKey \in callbacks
    /\ WatchedKey \in DOMAIN pods
    /\ pods[WatchedKey].UID = PodUID(1)
    /\ PodUID(1) \notin DOMAIN terminationTimersMap
    /\ Fired(PodUID(0))

(***************************************************************************)
(* Properties of the allow-listed namespaces in the controller *)

\* no timer is held for a pod of an allow-listed namespace
C34_NoTimerForExempt ==
    \A u \in DOMAIN terminationTimersMap :
        ~IsAllowedNamespace(terminationTimersMap[u].Namespace)

\* no eviction is issued for a pod of an allow-listed namespace
C34_NoEvictionForExempt ==
    \A key \in callbacks : ~IsAllowedNamespace(key[1])

\* C34: for a pod of an allow-listed namespace the controller never arms a
\* timer and never issues an eviction, in every reachable state, a restart of
\* the controller included, even when the pod carries the
\* interaction-timestamp and TTL labels.
C34_ExemptNeverEvicted ==
    [](C34_NoTimerForExempt /\ C34_NoEvictionForExempt)

\* after a start of the controller the timer armed for a labeled pod of an
\* allow-listed namespace has fired and its eviction is under way
C34_ExemptPodBeingEvicted ==
    \E key \in callbacks :
        /\ IsAllowedNamespace(key[1])
        /\ key \in DOMAIN pods
        /\ Fired(pods[key].UID)
        /\ terminationTimersMap[pods[key].UID].Namespace = key[1]

(***************************************************************************)
(* Properties of the duration formats of the plugin, webhook and controller *)

\* the plugin was asked to extend and --duration has passed isValidDuration
ExtendAccepted ==
    /\ cli.pc \notin {"none", "complete", "validate"}
    /\ cli.action = cmdExtendAction
    /\ isValidDuration(cli.extendDurationStr)

\* the plugin is about to patch a pod the API server holds
PatchesStoredPod ==
    /\ ExtendAccepted
    /\ AtPatch(cli)
    /\ PodKey(cli.pods[cli.i]) \in DOMAIN pods

\* what AdmitPodUpdate answers to the update the plugin's patch makes
ReviewOfExtension ==
    LET pod == cli.pods[cli.i]
        oldPod == pods[PodKey(pod)]
        doc == ApplyOps(PatchDoc(oldPod),
                        patchAnnotationsOps(pod,
                            [k \in {PodExtendDurationAnnotate} |->
                                cli.extendDurationStr]))
    IN  AdmitPodUpdateDecide(
            UpdateRequest(TRUE, CliCaller, pod.Namespace, pod.Name,
                          [ok |-> TRUE, pod |-> doc.pod],
                          [ok |-> TRUE, pod |-> oldPod]),
            FreshWriter)

C35_AcceptedParses ==
    ExtendAccepted => ParseDuration(cli.extendDurationStr).ok

C35_NotDeniedAsInvalid ==
    PatchesStoredPod =>
        ~(/\ ~ReviewOfExtension.send
          /\ ReviewOfExtension.w.written
          /\ ~ReviewOfExtension.w.body.allowed
          /\ ReviewOfExtension.w.body.message = InvalidAnnotationReason)

C35_ControllerComputes ==
    (PatchesStoredPod /\ getTerminationTime(pods[PodKey(cli.pods[cli.i])]).ok) =>
        getTerminationTime(
            [pods[PodKey(cli.pods[cli.i])] EXCEPT
                !.Annotations = Put(@, PodExtendDurationAnnotate,
                                    cli.extendDurationStr)]).ok

\* C35: every duration string isValidDuration accepts for 'extend' is
\* accepted by AdmitPodUpdate's check of the extension annotation and parsed
\* by getTerminationTime: an extension that passed the plugin's validation is
\* never denied with the invalid-annotation reason and never makes the
\* computation of the termination time fail.
C35_PluginAndWebhookAgree ==
    /\ C35_AcceptedParses
    /\ C35_NotDeniedAsInvalid
    /\ C35_ControllerComputes

\* "kubectl pi extend -d 1d web" on the flagged pod web has ended with the
\* error of the Patch, which no fault of the API server caused
C35_DayExtensionDenied ==
    /\ ExtendAccepted
    /\ cli.extendDurationStr = "1d"
    /\ cli.pc = "exit"
    /\ cli.err = "patch failed"
    /\ faults = 0
    /\ cli.attempted # <<>>
    /\ <<CliNamespace, "web">> \in DOMAIN pods
    /\ Has(pods[<<CliNamespace, "web">>].Labels, PodInteractionTimestampLabel)
    /\ ~Has(pods[<<CliNamespace, "web">>].Annotations, PodExtendDurationAnnotate)

(***************************************************************************)
(* Properties of the extension a published update carries *)

\* the termination time of the pod without its extension annotation
BaseTermination(pod) ==
    getTerminationTime(
        [pod EXCEPT !.Annotations =
            [k \in DOMAIN @ \ {PodExtendDurationAnnotate} |-> @[k]]])

\* the extension of the update is not negative, and the termination time
\* computed from its pod is not before interaction timestamp + TTL
NeverShortens(pd) ==
    LET ext == ParseDuration(Lookup(pd.Pod.Annotations, PodExtendDurationAnnotate))
    IN  /\ ext.ok => ext.d >= 0
        /\ getTerminationTime(pd.Pod).ok =>
              getTerminationTime(pd.Pod).t >= BaseTermination(pd.Pod).t

\* C36: every PodExtensionUpdate AdmitPodUpdate publishes carries an
\* extension that is not negative, so that the termination time the
\* controller computes from it is never earlier than interaction timestamp +
\* TTL.
C36_ExtensionNeverShortens ==
    \A i \in DOMAIN PodExtensionUpdateCh : NeverShortens(PodExtensionUpdateCh[i])

\* the channel holds the update of a pod flagged at second 5 with TTL 2s whose
\* extension is "-1h": its termination time is an hour before second 7
C36_NegativeExtensionPublished ==
    \E i \in DOMAIN PodExtensionUpdateCh :
        LET pod == PodExtensionUpdateCh[i].Pod
        IN  /\ Lookup(pod.Annotations, PodExtendDurationAnnotate) = "-1h"
            /\ BaseTermination(pod).ok
            /\ BaseTermination(pod).t = 7
            /\ getTerminationTime(pod).ok
            /\ getTerminationTime(pod).t = 7 - 3600

(***************************************************************************)
(* Properties of the two loops on one pod *)

\* the pod of the update the extension loop holds is stored, under the UID
\* the update names, and carries the interaction-timestamp label
UpdateOfLiveFlaggedPod ==
    LET pod == loops["extension"].pd.Pod
    IN  /\ PodKey(pod) \in DOMAIN pods
        /\ pods[PodKey(pod)].UID = pod.UID
        /\ Has(pods[PodKey(pod)].Labels, PodInteractionTimestampLabel)

\* C37: whenever the extension loop looks up the timer for an update whose
\* pod still exists and carries the interaction-timestamp label the
\* controller set, the timer map holds a timer for the pod's UID, under every
\* interleaving of the two loops; the update is ignored for want of a timer
\* only when its pod was never flagged or is gone.
C37_NoExtensionLost ==
    [][(ChecksTimer /\ UpdateOfLiveFlaggedPod) =>
          loops["extension"].pd.Pod.UID \in DOMAIN terminationTimersMap]_vars

\* the interaction loop has patched the labels of the pod of a new
\* interaction and has not yet armed its timer; the extension loop has taken
\* an update of that pod and finds no timer
C37_ExtensionBetweenLabelsAndTimer ==
    /\ loops["interaction"].op = "new"
    /\ loops["interaction"].pc \in {"st_patch", "st_timer"}
    /\ loops["extension"].pc = "ext_check"
    /\ loops["extension"].pd.Pod.UID = loops["interaction"].pod.UID
    /\ UpdateOfLiveFlaggedPod
    /\ loops["extension"].pd.Pod.UID \notin DOMAIN terminationTimersMap

(***************************************************************************)
(* Properties of patch *)

\* the keys a loop standing at a Patch call is about to set
PatchedLabels(lp) ==
    IF lp.pc = "new_labels" THEN DOMAIN labelsPatchMap(lp.pi) ELSE {}

PatchedAnnotations(lp) ==
    CASE lp.pc = "st_patch" -> {PodTerminationTimeAnnotate}
      [] lp.pc = "ext_requester" -> {PodExtendRequesterAnnotate}
      [] OTHER -> {}

\* loop l's Patch is applied to the stored pod in this step
PatchApplied(l) ==
    /\ loops[l].pc \in {"new_labels", "st_patch", "ext_requester"}
    /\ loops'[l] # loops[l]
    /\ pods' # pods

\* every key of map m outside ks is in m2 with the value it had
KeptOutside(m, m2, ks) ==
    \A k \in DOMAIN m \ ks : k \in DOMAIN m2 /\ m2[k] = m[k]

\* C38: a label or annotation patch of the controller changes only the keys
\* of its patch map: every other label and annotation of the stored pod is
\* left as it was, also when keys were added to a labels or annotations map
\* that was empty in the pod object the controller holds.
C38_PatchesFramed ==
    [][\A l \in LoopIds :
          PatchApplied(l) =>
              LET key == PodKey(loops[l].pod)
              IN  /\ key \in DOMAIN pods'
                  /\ KeptOutside(pods[key].Labels, pods'[key].Labels,
                                 PatchedLabels(loops[l]))
                  /\ KeptOutside(pods[key].Annotations, pods'[key].Annotations,
                                 PatchedAnnotations(loops[l]))]_vars

\* the interaction loop is about to patch the termination time with the pod
\* the label patch returned, which had no annotations; the stored pod has
\* since been given the extension annotation
C38_PatchOverAddedAnnotation ==
    /\ loops["interaction"].pc = "st_patch"
    /\ DOMAIN loops["interaction"].pod.Annotations = {}
    /\ PodKey(loops["interaction"].pod) \in DOMAIN pods
    /\ pods[PodKey(loops["interaction"].pod)].UID = loops["interaction"].pod.UID
    /\ Has(pods[PodKey(loops["interaction"].pod)].Annotations,
           PodExtendDurationAnnotate)

(***************************************************************************)
(* The controller's own patches as update requests *)

\* rest.InClusterConfig: the controller's API calls carry the identity of the
\* service account of its pod
ControllerCaller == [uid |-> "req-ctl", username |-> "kube-exec-controller"]

\* the verdict of AdmitPodUpdate on the UPDATE that turns oldPod into pod
ReviewOfOwnPatch(oldPod, pod) ==
    AdmitPodUpdateDecide(
        UpdateRequest(TRUE, ControllerCaller, pod.Namespace, pod.Name,
                      [ok |-> TRUE, pod |-> pod], [ok |-> TRUE, pod |-> oldPod]),
        FreshWriter)

\* the update is admitted without a PodExtensionUpdate being sent
AllowedSilently(v) ==
    /\ ~v.send
    /\ v.w.written
    /\ v.w.body.allowed

\* C39: the update request that any patch of the controller causes (the three
\* interaction labels, the termination time, the extension requester) is
\* allowed by AdmitPodUpdate and publishes no PodExtensionUpdate, so that
\* handling one event never enqueues another.
C39_NoFeedback ==
    [][\A l \in LoopIds :
          PatchApplied(l) =>
              LET key == PodKey(loops[l].pod)
              IN  AllowedSilently(ReviewOfOwnPatch(pods[key], pods'[key]))]_vars

\* the termination-time patch the interaction loop is about to send is one
\* that AdmitPodUpdate answers by publishing a PodExtensionUpdate
C39_OwnPatchPublishes ==
    /\ loops["interaction"].pc = "st_patch"
    /\ getTerminationTime(loops["interaction"].pod).ok
    /\ LET lp == loops["interaction"]
           r == patch(lp.pod, typeAnnotations,
                      [k \in {PodTerminationTimeAnnotate} |->
                          TimeString(getTerminationTime(lp.pod).t)],
                      pods)
       IN  /\ r.ok
           /\ ReviewOfOwnPatch(pods[PodKey(lp.pod)], r.pod).send

(***************************************************************************)
(* The whole program with its goroutines scheduled fairly *)

\* the steps of CheckPodInteraction that do not wait for a Patch call
InteractionLoopRuns ==
    \/ PrevListOK
    \/ PrevListFail
    \/ PrevNext
    \/ StParseErr("interaction")
    \/ StTimerReset("interaction")
    \/ StTimerCreate("interaction")
    \/ InteractionRecv
    \/ NewGetFail
    \/ NewGetLabeled
    \/ NewGetUnlabeled

\* the steps of CheckPodExtensionUpdate that do not wait for a Patch call
ExtensionLoopRuns ==
    \/ ExtensionRecv
    \/ ExtCheckAbsent
    \/ ExtCheckPresent
    \/ StParseErr("extension")
    \/ StTimerReset("extension")
    \/ StTimerCreate("extension")

\* loop l stands at a Patch call; the call returns with the pod or an error
AtPatchCall(l) == loops[l].pc \in {"st_patch", "new_labels", "ext_requester"}

\* the send statement of handler h: it goes through once the buffer has room
ChannelSend(h) == InteractionSend(h) \/ ExtensionSend(h)

\* what the users change while the handlers are watched: two extensions
\* that are admitted one after the other, and one that does not parse
ServeChanges ==
    {[what |-> "annotate", value |-> "1s"],
     [what |-> "annotate", value |-> "2s"],
     [what |-> "annotate", value |-> "1d"]}

\* the users exec into the pod, change it and create it; the handlers, the
\* two loops and the Go runtime take their steps; no time passes
NextServe ==
    \/ \E h \in HandlerIds : KubectlExec(h, WatchedKey)
    \/ \E h \in HandlerIds, ch \in ServeChanges : KubectlUpdate(h, WatchedKey, ch)
    \/ \E h \in HandlerIds : AdmitPodInteraction(h)
    \/ \E h \in HandlerIds : InteractionSend(h)
    \/ \E h \in HandlerIds : AdmitPodUpdate(h)
    \/ \E h \in HandlerIds : ExtensionSend(h)
    \/ \E h \in HandlerIds : ApiRespond(h)
    \/ PrevListOK
    \/ PrevListFail
    \/ PrevNext
    \/ \E l \in LoopIds : StParseErr(l)
    \/ \E l \in LoopIds : StPatchOK(l)
    \/ \E l \in LoopIds : StPatchFail(l)
    \/ \E l \in LoopIds : StTimerReset(l)
    \/ \E l \in LoopIds : StTimerCreate(l)
    \/ InteractionRecv
    \/ NewGetFail
    \/ NewGetLabeled
    \/ NewGetUnlabeled
    \/ NewLabelsOK
    \/ NewLabelsFail
    \/ ExtensionRecv
    \/ ExtCheckAbsent
    \/ ExtCheckPresent
    \/ ExtRequesterOK
    \/ ExtRequesterFail
    \/ ConcurrentMapAccess
    \/ CreatePod(WatchedKey)

\* both consumer goroutines and the handler goroutines are scheduled, and
\* the API calls of the loops return.  The fairness of the steps that return
\* from a Patch call is written by its meaning: no loop stands at a Patch
\* call for ever.
SpecServe ==
    /\ Init
    /\ [][NextServe]_vars
    /\ WF_vars(InteractionLoopRuns)
    /\ WF_vars(ExtensionLoopRuns)
    /\ \A l \in LoopIds : []<>(~AtPatchCall(l))
    /\ \A h \in HandlerIds : WF_vars(ChannelSend(h))

(***************************************************************************)
(* Properties of the handlers' channel sends *)

\* the Go runtime has ended the process
ProcessEnded == \A l \in LoopIds : loops[l].pc = "fatal"

\* C40: while the process runs, a handler that waits at its channel send is
\* eventually let through and writes its verdict: each loop finishes or
\* drops the item it holds and comes back to receive the next one.
C40_HandlersRespond ==
    \A h \in HandlerIds :
        Sending(h) ~> (handlers[h].w.written \/ ProcessEnded)

\* a handler has admitted an extension and waits at its send: the buffer
\* is full of earlier extensions the loop has not received yet
C40_BlockedOnFullBuffer ==
    \E h \in HandlerIds :
        /\ Sending(h)
        /\ handlers[h].endpoint = "update"
        /\ Len(PodExtensionUpdateCh) = podExtendChanSize
        /\ ~ProcessEnded

====
